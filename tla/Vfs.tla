-------------------------------- MODULE Vfs ---------------------------------
(***************************************************************************)
(* The name space of the file system: path walks, the inode cache and its  *)
(* references, open, link, unlink, mkdir, rmdir and chdir: kernel/fs/fs.c, *)
(* the directory part of kernel/fs/sfs/sfs.c and the system calls that     *)
(* lead there.                                                             *)
(*                                                                         *)
(* Threads meet in the sleep locks of inodes (i_lock); a step here is what *)
(* a thread does between two acquisitions.  The inode cache is read and    *)
(* changed under s_lock, and a block under its header's lock, both within  *)
(* one step.  The journal is disabled and does nothing.                    *)
(***************************************************************************)
EXTENDS Naturals, Sequences, FiniteSets, FiniteSetsExt

CONSTANTS Threads,
          NInodes,    \* inodes on the disk; number 1 is the root directory
          NSlots,     \* directory entries that fit into a directory
          Names,
          Cut,        \* what a directory entry keeps of a name, 27 characters:
                      \* a name that is longer is not its own cut
          Calls,      \* the system calls of a thread's process: operation
                      \* and paths, of which an operation but link has one
          Nobody

ASSUME VfsAssumption ==
  /\ IsFiniteSet(Threads) /\ Names # {}
  /\ {NInodes, NSlots} \subseteq Nat \ {0} /\ Nobody \notin Threads
  /\ Cut \in [Names -> Names] /\ \A n \in Names : Cut[Cut[n]] = Cut[n]
  /\ \A t \in Threads : \A c \in Calls[t] :
       /\ c.op \in {"open", "creat", "chdir", "link", "unlink", "mkdir", "rmdir"}
       /\ {c.path, c.path2} \subseteq [abs : BOOLEAN, names : Seq(Names)]

INums == 1..NInodes
SFS_ROOT_INUM == 1
NONE == 0
Slots == 1..NSlots

VARIABLES
  ftype,     \* on disk: file type of an inode, "free" in the inode bitmap
  dnlink,    \* on disk: link count
  dirents,   \* on disk: entries of a directory
  ref,       \* in memory: i_ref; an inode without references is not cached
  valid,     \* in memory: INODE_VALID
  nlink,     \* in memory: i_nlink
  dirty,     \* in memory: inodes with INODE_DIRTY
  lock,      \* holder of i_lock
  cleanup,   \* cleanup_thread_inodes, which no thread takes from
  cwd, file, \* of a thread's process: directory, and an open file
  th,        \* the call a thread is in
  ended      \* history: a kassert failed, or memory was short where that
             \* is not handled

disk  == <<ftype, dnlink, dirents>>
cache == <<ref, valid, nlink, dirty>>
vars  == <<ftype, dnlink, dirents, ref, valid, nlink, dirty, lock, cleanup, cwd, file,
          th, ended>>

NoEntry == [inum |-> NONE, name |-> CHOOSE n \in Names : TRUE]
NoPath == [abs |-> TRUE, names |-> <<>>]
Idle == [op |-> "none", pc |-> "idle", curr |-> NONE, rest |-> <<>>, ino |-> NONE,
         src |-> NONE, slot |-> 0, inum |-> NONE, path2 |-> NoPath, drop |-> <<>>,
         ret |-> "idle"]

-----------------------------------------------------------------------------
(* The inode cache *)

(* fs_get_inode up to its wait for i_lock *)
GetRef(i) == ref' = [ref EXCEPT ![i] = @ + 1]

(* The rest of it, under i_lock: sfs_read_inode unless the inode is valid. *)
Load(i) ==
  /\ valid' = [valid EXCEPT ![i] = TRUE]
  /\ nlink' = [nlink EXCEPT ![i] = IF valid[i] THEN @ ELSE dnlink[i]]

(* Variant: the cleanup thread is given an inode without a reference. *)
fs_release_inodeBare(i) ==
  /\ ref' = [ref EXCEPT ![i] = @ - 1]
  /\ UNCHANGED <<valid, nlink, dirty>>
  /\ IF ref[i] = 1 /\ valid[i] /\ (nlink[i] = 0 \/ i \in dirty)
     THEN cleanup' = Append(cleanup, i)
     ELSE UNCHANGED cleanup

(* The last reference to an inode that is unlinked, or dirty, goes to the  *)
(* cleanup thread.                                                         *)
fs_release_inode(i) ==
  LET last == ref[i] = 1
      dead == last /\ valid[i] /\ (nlink[i] = 0 \/ i \in dirty)
  IN
  /\ ref' = [ref EXCEPT ![i] = IF dead THEN @ ELSE @ - 1]
  /\ cleanup' = IF dead THEN Append(cleanup, i) ELSE cleanup
  /\ valid' = [valid EXCEPT ![i] = @ /\ (dead \/ ~last)]
  /\ nlink' = [nlink EXCEPT ![i] = IF last /\ ~dead THEN 0 ELSE @]
  /\ UNCHANGED dirty

-----------------------------------------------------------------------------
(* Directories *)

(* strncmp tells a name that is too long from what was kept of it. *)
Matches(d, n) == {s \in Slots : dirents[d][s].inum # NONE /\ dirents[d][s].name = n}

search_dir(d, n) ==
  IF Matches(d, n) = {} THEN NONE ELSE dirents[d][Min(Matches(d, n))].inum

FreeSlots(d) == {s \in Slots : dirents[d][s].inum = NONE}

is_dir_empty(d) == FreeSlots(d) = Slots

alloc_dirent(d, n, i) ==
  dirents' = [dirents EXCEPT ![d][Min(FreeSlots(d))] = [inum |-> i, name |-> Cut[n]]]

free_dirent(d, n) ==
  dirents' = [dirents EXCEPT ![d][Min(Matches(d, n))] = NoEntry]

FreeInodes == {i \in INums : ftype[i] = "free"}

CanCreate(d) == FreeInodes # {} /\ FreeSlots(d) # {}

(* create_inode_in_dir with alloc_disk_inode *)
create_inode_in_dir(d, n, type) ==
  LET i == Min(FreeInodes) IN
  /\ ftype' = [ftype EXCEPT ![i] = type]
  /\ dnlink' = [dnlink EXCEPT ![i] = 1]
  /\ alloc_dirent(d, n, i)

-----------------------------------------------------------------------------
(* Path walks *)

Goto(t, r) == th' = [th EXCEPT ![t] = r]

(* Let go of the inodes in s, one after the other, and go on at ret. *)
ThenDrop(r, s, ret) == [r EXCEPT !.pc = "release", !.drop = s, !.ret = ret]

Finish(s) == ThenDrop(Idle, s, "idle")

(* A call ends by giving back the directory it is in, and link its file. *)
Done(r) == Finish(<<r.curr>> \o (IF r.src = NONE THEN <<>> ELSE <<r.src>>))

Start(t, p) == IF p.abs THEN SFS_ROOT_INUM ELSE cwd[t]

(* A system call with a path: fs_find_parent_inode takes its first inode. *)
Begin(t, c) ==
  LET i == Start(t, c.path) IN
  /\ th[t].pc = "idle"
  /\ c.op \in {"open", "creat"} => file[t] = NONE
  /\ GetRef(i)
  /\ Goto(t, [Idle EXCEPT !.op = c.op, !.pc = "walk", !.curr = i,
                          !.rest = c.path.names, !.path2 = c.path2])
  /\ UNCHANGED <<disk, valid, nlink, dirty, lock, cleanup, cwd, file>>

Leaf(r) == IF r.rest = <<>> THEN "" ELSE Head(r.rest)

(* What each call does with the directory that holds the leaf. *)
AtParent(op) ==
  CASE op \in {"chdir", "link"}    -> "find"
    [] op \in {"open", "creat"}    -> "open"
    [] op \in {"unlink", "rmdir"}  -> "rm"
    [] op = "mkdir"                -> "mk"
    [] op = "linkat"               -> "linksrc"

(* fs_find_parent_inode, with the lock of the directory it has come to; a  *)
(* lookup may fail for want of memory.                                     *)
fs_find_parent_inode(t) ==
  LET r == th[t]
      next == search_dir(r.curr, Leaf(r))
  IN
  /\ r.pc = "walk" /\ lock[r.curr] = Nobody
  /\ Load(r.curr)
  /\ \/ /\ ftype[r.curr] # "dir"
        /\ Goto(t, Done(r))
        /\ UNCHANGED <<ref, lock>>
     \/ /\ ftype[r.curr] = "dir" /\ Len(r.rest) <= 1
        /\ Goto(t, [r EXCEPT !.pc = AtParent(r.op)])
        /\ UNCHANGED <<ref, lock>>
     \/ /\ ftype[r.curr] = "dir" /\ Len(r.rest) > 1
        /\ \/ /\ next # NONE
              /\ GetRef(next)
              /\ lock' = [lock EXCEPT ![r.curr] = t]
              /\ Goto(t, [r EXCEPT !.pc = "enter", !.ino = next])
           \/ /\ Goto(t, Done(r))
              /\ UNCHANGED <<ref, lock>>
  /\ UNCHANGED <<disk, dirty, cleanup, cwd, file>>

(* Variant: the directory is released with its lock held. *)
EnterLocked(t) ==
  LET r == th[t] IN
  /\ r.pc = "enter" /\ lock[r.ino] = Nobody
  /\ Load(r.ino)
  /\ Goto(t, ThenDrop([r EXCEPT !.curr = r.ino, !.ino = NONE, !.rest = Tail(@)],
                      <<r.curr>>, "walk"))
  /\ UNCHANGED <<disk, ref, dirty, lock, cleanup, cwd, file>>

(* The lookup ends, and the walk goes one directory down. *)
Enter(t) ==
  LET r == th[t] IN
  /\ r.pc = "enter" /\ lock[r.ino] = Nobody
  /\ Load(r.ino)
  /\ lock' = [lock EXCEPT ![r.curr] = Nobody]
  /\ Goto(t, ThenDrop([r EXCEPT !.curr = r.ino, !.ino = NONE, !.rest = Tail(@)],
                      <<r.curr>>, "walk"))
  /\ UNCHANGED <<disk, ref, dirty, cleanup, cwd, file>>

Release(t) ==
  LET r == th[t]
      more == Tail(r.drop)
  IN
  /\ r.pc = "release" /\ lock[Head(r.drop)] = Nobody
  /\ fs_release_inode(Head(r.drop))
  /\ Goto(t, IF more # <<>> THEN [r EXCEPT !.drop = more]
             ELSE IF r.ret = "idle" THEN Idle
             ELSE [r EXCEPT !.pc = r.ret, !.drop = <<>>, !.ret = "idle"])
  /\ UNCHANGED <<disk, lock, cwd, file>>

-----------------------------------------------------------------------------
(* fs_find_inode: its lookup does not lock the directory, and search_dir   *)
(* reads the entry it has found after it has released the block.           *)

fs_find_inode(t) ==
  LET r == th[t] IN
  /\ r.pc = "find"
  /\ Goto(t, IF Leaf(r) = "" THEN [r EXCEPT !.pc = "found", !.ino = r.curr, !.curr = NONE]
             ELSE IF Matches(r.curr, Leaf(r)) = {} THEN Done(r)
             ELSE [r EXCEPT !.pc = "read", !.slot = Min(Matches(r.curr, Leaf(r)))])
  /\ UNCHANGED <<disk, cache, lock, cleanup, cwd, file>>

ReadEntry(t) ==
  LET r == th[t]
      i == dirents[r.curr][r.slot].inum
  IN
  /\ r.pc = "read"
  /\ Goto(t, IF i = NONE THEN Done(r)
             ELSE [r EXCEPT !.pc = "take", !.inum = i, !.slot = 0])
  /\ UNCHANGED <<disk, cache, lock, cleanup, cwd, file>>

(* fs_get_inode of the number that was read, whatever has become of it; it *)
(* may find no memory.                                                     *)
Take(t) ==
  LET r == th[t] IN
  /\ r.pc = "take"
  /\ \/ /\ GetRef(r.inum)
        /\ Goto(t, [r EXCEPT !.pc = "hold", !.ino = r.inum, !.inum = NONE])
     \/ Goto(t, Done(r)) /\ UNCHANGED ref
  /\ UNCHANGED <<disk, valid, nlink, dirty, lock, cleanup, cwd, file>>

Hold(t) ==
  LET r == th[t] IN
  /\ r.pc = "hold" /\ lock[r.ino] = Nobody
  /\ Load(r.ino)
  /\ Goto(t, ThenDrop([r EXCEPT !.curr = NONE], <<r.curr>>, "found"))
  /\ UNCHANGED <<disk, ref, dirty, lock, cleanup, cwd, file>>

(* Variant: the old directory's reference is kept. *)
sys_chdirKeep(t) ==
  LET r == th[t] IN
  /\ r.pc = "found" /\ r.op = "chdir"
  /\ cwd' = [cwd EXCEPT ![t] = r.ino]
  /\ Goto(t, Idle)
  /\ UNCHANGED <<disk, cache, lock, cleanup, file>>

sys_chdir(t) ==
  LET r == th[t] IN
  /\ r.pc = "found" /\ r.op = "chdir"
  /\ cwd' = [cwd EXCEPT ![t] = r.ino]
  /\ Goto(t, Finish(<<cwd[t]>>))
  /\ UNCHANGED <<disk, cache, lock, cleanup, file>>

(* fs_link has its file and looks for the directory of the new name. *)
LinkFound(t) ==
  LET r == th[t]
      i == Start(t, r.path2)
  IN
  /\ r.pc = "found" /\ r.op = "link"
  /\ \/ /\ ftype[r.ino] # "file"
        /\ Goto(t, Finish(<<r.ino>>))
        /\ UNCHANGED ref
     \/ /\ ftype[r.ino] = "file"
        /\ GetRef(i)
        /\ Goto(t, [r EXCEPT !.op = "linkat", !.pc = "walk", !.curr = i, !.ino = NONE,
                             !.src = r.ino, !.rest = r.path2.names, !.path2 = NoPath])
  /\ UNCHANGED <<disk, valid, nlink, dirty, lock, cleanup, cwd, file>>

(* It locks the file ... *)
LinkSrc(t) ==
  LET r == th[t] IN
  /\ r.pc = "linksrc"
  /\ \/ /\ Leaf(r) = ""
        /\ Goto(t, Done(r))
        /\ UNCHANGED lock
     \/ /\ Leaf(r) # "" /\ lock[r.src] = Nobody
        /\ lock' = [lock EXCEPT ![r.src] = t]
        /\ Goto(t, [r EXCEPT !.pc = "linkdir"])
  /\ UNCHANGED <<disk, cache, cleanup, cwd, file>>

(* sfs_write_inode writes what else has changed too. *)
AddLink(r) ==
  /\ FreeSlots(r.curr) # {}
  /\ alloc_dirent(r.curr, Leaf(r), r.src)
  /\ nlink' = [nlink EXCEPT ![r.src] = @ + 1]
  /\ dnlink' = [dnlink EXCEPT ![r.src] = nlink[r.src] + 1]
  /\ dirty' = dirty \ {r.src}

(* ... and then the directory; sfs_link, which may find no memory. *)
sfs_link(t) ==
  LET r == th[t] IN
  /\ r.pc = "linkdir" /\ lock[r.curr] = Nobody
  /\ \/ search_dir(r.curr, Leaf(r)) = NONE /\ AddLink(r)
     \/ UNCHANGED <<dirents, nlink, dnlink, dirty>>
  /\ lock' = [lock EXCEPT ![r.src] = Nobody]
  /\ Goto(t, Done(r))
  /\ UNCHANGED <<ftype, ref, valid, cleanup, cwd, file>>

-----------------------------------------------------------------------------
(* fs_open_file, fs_close_file, and sfs_write of an open file *)

(* fs_alloc_file may fail; then the inode is released after its directory. *)
fs_alloc_file(t, i, parent) ==
  \/ file' = [file EXCEPT ![t] = i] /\ Goto(t, IF parent = <<>> THEN Idle ELSE Finish(parent))
  \/ Goto(t, Finish(parent \o <<i>>)) /\ UNCHANGED file

(* With FS_CREAT a file that is not there is made, and looked up again. *)
MakesFile(r) ==
  /\ r.op = "creat" /\ search_dir(r.curr, Leaf(r)) = NONE /\ CanCreate(r.curr)
  /\ create_inode_in_dir(r.curr, Leaf(r), "file")

(* Under the directory's lock the file is looked up or made; a lookup may  *)
(* fail for want of memory, the one that follows the creation too.         *)
fs_open_file(t) ==
  LET r == th[t]
      i == search_dir(r.curr, Leaf(r))
  IN
  /\ r.pc = "open"
  /\ \/ /\ Leaf(r) = ""
        /\ fs_alloc_file(t, r.curr, <<>>)
        /\ UNCHANGED <<disk, ref, lock>>
     \/ /\ Leaf(r) # "" /\ lock[r.curr] = Nobody
        /\ UNCHANGED file
        /\ \/ /\ i # NONE
              /\ GetRef(i)
              /\ lock' = [lock EXCEPT ![r.curr] = t]
              /\ Goto(t, [r EXCEPT !.pc = "opened", !.ino = i])
              /\ UNCHANGED disk
           \/ /\ Cut[Leaf(r)] = Leaf(r) /\ MakesFile(r)
              /\ GetRef(Min(FreeInodes))
              /\ lock' = [lock EXCEPT ![r.curr] = t]
              /\ Goto(t, [r EXCEPT !.pc = "opened", !.ino = Min(FreeInodes)])
           \/ /\ Goto(t, Done(r))
              /\ UNCHANGED <<ref, lock>>
              /\ UNCHANGED disk \/ (Cut[Leaf(r)] = Leaf(r) /\ MakesFile(r))
  /\ UNCHANGED <<valid, nlink, dirty, cleanup, cwd>>

Opened(t) ==
  LET r == th[t] IN
  /\ r.pc = "opened" /\ lock[r.ino] = Nobody
  /\ Load(r.ino)
  /\ lock' = [lock EXCEPT ![r.curr] = Nobody]
  /\ fs_alloc_file(t, r.ino, <<r.curr>>)
  /\ UNCHANGED <<disk, ref, dirty, cleanup, cwd>>

(* sfs_write, with i_lock: a write that makes the file longer sets the     *)
(* flag, and sfs_write_inode clears it unless it finds no memory.          *)
sfs_write(t) ==
  LET i == file[t] IN
  /\ th[t].pc = "idle" /\ i # NONE /\ ftype[i] = "file" /\ lock[i] = Nobody
  /\ dirty' \in {dirty \cup {i}, dirty \ {i}}
  /\ UNCHANGED <<disk, ref, valid, nlink, lock, cleanup, cwd, file, th>>

fs_close_file(t) ==
  /\ th[t].pc = "idle" /\ file[t] # NONE
  /\ Goto(t, Finish(<<file[t]>>))
  /\ file' = [file EXCEPT ![t] = NONE]
  /\ UNCHANGED <<disk, cache, lock, cleanup, cwd>>

-----------------------------------------------------------------------------
(* fs_mkdir, fs_unlink, fs_rmdir *)

fs_mkdir(t) ==
  LET r == th[t]
      fits == Leaf(r) # "" /\ search_dir(r.curr, Leaf(r)) = NONE /\ CanCreate(r.curr)
  IN
  /\ r.pc = "mk"
  /\ Leaf(r) # "" => lock[r.curr] = Nobody
  /\ \/ fits /\ create_inode_in_dir(r.curr, Leaf(r), "dir")
     \/ UNCHANGED disk
  /\ Goto(t, Done(r))
  /\ UNCHANGED <<cache, lock, cleanup, cwd, file>>

(* fs_unlink and fs_rmdir: the lookup of unlink_inode_in_dir *)
fs_unlink(t) ==
  LET r == th[t]
      i == search_dir(r.curr, Leaf(r))
  IN
  /\ r.pc = "rm"
  /\ \/ /\ Leaf(r) = ""
        /\ Goto(t, Done(r))
        /\ UNCHANGED <<ref, lock>>
     \/ /\ Leaf(r) # "" /\ lock[r.curr] = Nobody
        /\ \/ /\ i # NONE
              /\ GetRef(i)
              /\ lock' = [lock EXCEPT ![r.curr] = t]
              /\ Goto(t, [r EXCEPT !.pc = "rmlock", !.ino = i])
           \/ /\ Goto(t, Done(r))
              /\ UNCHANGED <<ref, lock>>
  /\ UNCHANGED <<disk, valid, nlink, dirty, cleanup, cwd, file>>

Removable(op, i) ==
  \/ op = "unlink" /\ ftype[i] = "file"
  \/ op = "rmdir" /\ ftype[i] = "dir" /\ is_dir_empty(i)

(* The inode is valid after its lookup. *)
LoadedLinks(i) == IF valid[i] THEN nlink[i] ELSE dnlink[i]

(* Variant: the new link count is not written to the disk. *)
unlink_inode_in_dirUnsaved(t) ==
  LET r == th[t] IN
  /\ r.pc = "rmlock" /\ lock[r.ino] = Nobody
  /\ valid' = [valid EXCEPT ![r.ino] = TRUE]
  /\ \/ /\ Removable(r.op, r.ino)
        /\ free_dirent(r.curr, Leaf(r))
        /\ nlink' = [nlink EXCEPT ![r.ino] = LoadedLinks(r.ino) - 1]
        /\ dirty' = dirty \cup {r.ino}
     \/ /\ ~Removable(r.op, r.ino)
        /\ nlink' = [nlink EXCEPT ![r.ino] = LoadedLinks(r.ino)]
        /\ UNCHANGED <<dirents, dirty>>
  /\ Goto(t, [r EXCEPT !.pc = "rmput"])
  /\ UNCHANGED <<ftype, dnlink, ref, lock, cleanup, cwd, file>>

(* The rest of it, with the locks of the directory and of the inode.  The  *)
(* search of either may find no memory, and nothing is removed then.       *)
unlink_inode_in_dir(t) ==
  LET r == th[t] IN
  /\ r.pc = "rmlock" /\ lock[r.ino] = Nobody
  /\ valid' = [valid EXCEPT ![r.ino] = TRUE]
  /\ \/ /\ Removable(r.op, r.ino)
        /\ free_dirent(r.curr, Leaf(r))
        /\ nlink' = [nlink EXCEPT ![r.ino] = LoadedLinks(r.ino) - 1]
        /\ dnlink' = [dnlink EXCEPT ![r.ino] = LoadedLinks(r.ino) - 1]
        /\ dirty' = dirty \ {r.ino}
     \/ /\ nlink' = [nlink EXCEPT ![r.ino] = LoadedLinks(r.ino)]
        /\ UNCHANGED <<dirents, dnlink, dirty>>
  /\ Goto(t, [r EXCEPT !.pc = "rmput"])
  /\ UNCHANGED <<ftype, ref, lock, cleanup, cwd, file>>

(* It releases the inode with the directory's lock held. *)
Unlinked(t) ==
  LET r == th[t] IN
  /\ r.pc = "rmput" /\ lock[r.ino] = Nobody
  /\ fs_release_inode(r.ino)
  /\ lock' = [lock EXCEPT ![r.curr] = Nobody]
  /\ Goto(t, Done(r))
  /\ UNCHANGED <<disk, cwd, file>>

-----------------------------------------------------------------------------
(* Where a lack of memory is not handled or a kassert fails.  The          *)
(* behaviour ends there.                                                   *)

(* search_dir returns 0 when it cannot have a block of the directory: a    *)
(* name that exists is made again or, when the second search of an open    *)
(* finds it, a kassert fails.                                              *)
NameMissed(t) ==
  LET r == th[t] IN
  /\ r.pc \in {"mk", "open", "linkdir"} /\ r.op # "open"
  /\ lock[r.curr] = Nobody
  /\ Leaf(r) # "" /\ search_dir(r.curr, Leaf(r)) # NONE
  /\ \/ r.pc = "linkdir" /\ AddLink(r) /\ UNCHANGED ftype
     \/ /\ r.pc # "linkdir" /\ CanCreate(r.curr)
        /\ create_inode_in_dir(r.curr, Leaf(r), IF r.pc = "mk" THEN "dir" ELSE "file")
        /\ UNCHANGED <<nlink, dirty>>
     \/ r.op = "creat" /\ UNCHANGED <<disk, nlink, dirty>>
  /\ lock' = [i \in INums |-> IF i = r.src THEN Nobody ELSE lock[i]]
  /\ Goto(t, Done(r))
  /\ ended' = TRUE
  /\ UNCHANGED <<ref, valid, cleanup, cwd, file>>

(* A file was made, and the lookup that follows does not find its name,    *)
(* which was cut, or has no memory for the block: a kassert fails.         *)
MadeUnseen(t) ==
  LET r == th[t] IN
  /\ r.pc = "open" /\ Leaf(r) # "" /\ lock[r.curr] = Nobody
  /\ MakesFile(r)
  /\ ended' = TRUE
  /\ UNCHANGED <<cache, lock, cleanup, cwd, file, th>>

(* unlink_inode_in_dir finds no memory for the block of the inode it has   *)
(* looked up, and returns with the reference.                              *)
ReferenceLost(t) ==
  LET r == th[t] IN
  /\ r.pc = "rmlock" /\ lock[r.ino] = Nobody
  /\ Load(r.ino)
  /\ lock' = [lock EXCEPT ![r.curr] = Nobody]
  /\ Goto(t, Done(r))
  /\ ended' = TRUE
  /\ UNCHANGED <<disk, ref, dirty, cleanup, cwd, file>>

-----------------------------------------------------------------------------
(* Every process starts in the root directory. *)
Init ==
  /\ ftype = [i \in INums |-> IF i = SFS_ROOT_INUM THEN "dir" ELSE "free"]
  /\ dnlink = [i \in INums |-> IF i = SFS_ROOT_INUM THEN 1 ELSE 0]
  /\ dirents = [i \in INums |-> [s \in Slots |-> NoEntry]]
  /\ ref = [i \in INums |-> IF i = SFS_ROOT_INUM THEN Cardinality(Threads) ELSE 0]
  /\ valid = [i \in INums |-> i = SFS_ROOT_INUM]
  /\ nlink = dnlink /\ dirty = {}
  /\ lock = [i \in INums |-> Nobody]
  /\ cleanup = <<>>
  /\ cwd = [t \in Threads |-> SFS_ROOT_INUM]
  /\ file = [t \in Threads |-> NONE]
  /\ th = [t \in Threads |-> Idle]
  /\ ended = FALSE

Call(t) == fs_close_file(t) \/ sfs_write(t) \/ \E c \in Calls[t] : Begin(t, c)

Step(t) ==
  \/ fs_find_parent_inode(t) \/ Enter(t) \/ Release(t)
  \/ fs_find_inode(t) \/ ReadEntry(t) \/ Take(t) \/ Hold(t)
  \/ sys_chdir(t) \/ LinkFound(t) \/ LinkSrc(t) \/ sfs_link(t)
  \/ fs_open_file(t) \/ Opened(t)
  \/ fs_mkdir(t) \/ fs_unlink(t) \/ unlink_inode_in_dir(t) \/ Unlinked(t)

Next ==
  /\ ~ended
  /\ \E t \in Threads : \/ (Call(t) \/ Step(t)) /\ UNCHANGED ended
                        \/ NameMissed(t) \/ MadeUnseen(t) \/ ReferenceLost(t)

Spec == Init /\ [][Next]_vars

-----------------------------------------------------------------------------
(* Properties *)

(* Every variable has its type. *)
TypeOK ==
  /\ ftype \in [INums -> {"free", "file", "dir"}]
  /\ dnlink \in [INums -> Nat] /\ nlink \in [INums -> Nat] /\ ref \in [INums -> Nat]
  /\ dirents \in [INums -> [Slots -> [inum : 0..NInodes, name : Names]]]
  /\ valid \in [INums -> BOOLEAN] /\ dirty \subseteq INums
  /\ lock \in [INums -> Threads \cup {Nobody}]
  /\ cwd \in [Threads -> INums] /\ file \in [Threads -> 0..NInodes]
  /\ ended \in BOOLEAN

Count(i, s) == Cardinality({k \in DOMAIN s : s[k] = i})

(* Where a thread keeps inodes: its call, its directory and its file. *)
Places(t) == <<th[t].curr, th[t].ino, th[t].src, cwd[t], file[t]>> \o th[t].drop

(* References to inode i: the places of all threads and the cleanup list. *)
Holders(i) ==
  Cardinality(UNION {{t} \X {k \in DOMAIN Places(t) : Places(t)[k] = i} : t \in Threads})
  + Count(i, cleanup)

(* An inode is counted as often as it is referred to, through walks and    *)
(* handled failures in any order: none is freed in use, none stays in the  *)
(* cache for ever.                                                         *)
RefsExact == ended \/ \A i \in INums : ref[i] = Holders(i)

(* The link count of an inode, on disk and in the cache, is the number of  *)
(* its directory entries; the root has one more.                           *)
LinksExact ==
  \A i \in INums :
    LET n == Cardinality({e \in INums \X Slots : dirents[e[1]][e[2]].inum = i})
             + (IF i = SFS_ROOT_INUM THEN 1 ELSE 0)
    IN  dnlink[i] = n /\ (valid[i] => nlink[i] = n) /\ (n > 0 => ftype[i] # "free")

(* n is what is left of a longer name. *)
Shared(n) == \E m \in Names \ {n} : Cut[m] = n

(* Calls that race to make the same name make one entry, unless a longer   *)
(* name that is cut to it was made too.                                    *)
NamesUnique ==
  \/ ended
  \/ \A d \in INums, n \in Names : Shared(n) \/ Cardinality(Matches(d, n)) <= 1

(* Directories through calls that race for the same names: an entry is     *)
(* made once if names are not cut, and disk and cache count the entries of *)
(* every inode.                                                            *)
DirsSound == TypeOK /\ LinksExact /\ NamesUnique

(* Inode i has to be deleted from the disk, or written to it. *)
Unsettled(i) == (ftype[i] # "free" /\ dnlink[i] = 0) \/ i \in dirty

(* No inode without a link, and no change of size that is not on the disk, *)
(* is dropped from the cache, through lookups and links that race with     *)
(* the removal; and what is handed to the cleanup thread stays there, and  *)
(* is handed over once.                                                    *)
CleanupSound ==
  \A i \in INums :
    /\ Unsettled(i) => valid[i] /\ ref[i] > 0
    /\ Count(i, cleanup) <= 1
    /\ Count(i, cleanup) = 1 => valid[i] /\ ref[i] > 0

(* The inode whose lock a thread needs for its next step, NONE if none. *)
Needs(t) ==
  LET r == th[t] IN
  CASE r.pc \in {"walk", "linkdir"}                          -> r.curr
    [] r.pc \in {"open", "rm", "mk"} /\ Leaf(r) # ""         -> r.curr
    [] r.pc \in {"enter", "hold", "opened", "rmlock", "rmput"} -> r.ino
    [] r.pc = "linksrc" /\ Leaf(r) # ""                      -> r.src
    [] r.pc = "release"                                      -> Head(r.drop)
    [] OTHER                                                 -> NONE

WaitsFor(t, u) == Needs(t) # NONE /\ lock[Needs(t)] = u

(* Locks are taken from a directory downwards by everything but link: two  *)
(* threads never wait for each other, nor one for itself, without a link   *)
(* among them.                                                             *)
CycleHasLink ==
  \A t, u \in Threads :
    WaitsFor(t, u) /\ WaitsFor(u, t) => "linkat" \in {th[t].op, th[u].op}

(* As fs.h asks of the callers of lookup, the directory does not change    *)
(* under a lookup: the entry found is not another name's when it is read.  *)
EntryKept ==
  \A t \in Threads :
    LET r == th[t]
        e == dirents[r.curr][r.slot]
    IN  r.pc = "read" => e.inum = NONE \/ e.name = Leaf(r)

(* What the cleanup thread is given is to be deleted or to be written, as  *)
(* it asserts, and is not in the hands of a link that would revive it.     *)
CleanupFinal ==
  \A k \in DOMAIN cleanup :
    /\ nlink[cleanup[k]] = 0 \/ cleanup[k] \in dirty
    /\ \A t \in Threads : th[t].src # cleanup[k]

(* A directory has one entry of a name. *)
OneEntry == ended \/ \A d \in INums, n \in Names : Cardinality(Matches(d, n)) <= 1

(* The interface of the inode operations (fs.h) has an error for a name    *)
(* that exists and one for a lack of memory, and nothing is lost by either.*)
ShortageHandled == ~ended

(* A directory that has been removed stays empty. *)
RemovedEmpty == \A i \in INums : ftype[i] = "dir" /\ dnlink[i] = 0 => is_dir_empty(i)

(* No two threads wait for each other. *)
NoDeadlock == \A t, u \in Threads : ~(WaitsFor(t, u) /\ WaitsFor(u, t))

=============================================================================
