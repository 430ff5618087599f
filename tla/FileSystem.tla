----------------------------- MODULE FileSystem -----------------------------
(***************************************************************************)
(* The read-only file system (filesys.c): the directory of the boot block, *)
(* the inodes and read_data.  A byte is named by its place in the image, a *)
(* data block and an index in it, so that what is read tells where it came *)
(* from.                                                                   *)
(***************************************************************************)
EXTENDS Integers, Sequences

CONSTANTS
    Directory,      \* the directory entries: records of name, ftype and inode
    NumInodes,      \* num_of_inodes
    Length,         \* per inode, its length in bytes
    Blocks,         \* per inode, its data blocks, from index 0
    DirEntries,     \* DIR_ENTRIES
    BlockSize,      \* FOUR_KILO_BYTE
    INodeBlocks     \* INODEDBLOCKS

Type     == {"rtc", "dir", "file"}
NumDirs  == Len(Directory)
Inode    == 0..(NumInodes - 1)
Names    == {Directory[i].name : i \in 1..NumDirs}

\* An image that mkfs writes: names are distinct, and every file fits into the
\* blocks of an inode.
ASSUME FileSystemAssumption ==
    /\ Directory \in Seq([name : STRING, ftype : Type, inode : Inode])
    /\ "" \notin Names
    /\ \A i, j \in 1..NumDirs : Directory[i].name = Directory[j].name => i = j
    /\ NumInodes \in Nat \ {0}
    /\ BlockSize \in Nat \ {0} /\ INodeBlocks \in Nat /\ DirEntries \in Nat
    /\ Length \in [Inode -> 0..(INodeBlocks * BlockSize)]
    /\ Blocks \in [Inode -> [0..(INodeBlocks - 1) -> Nat]]

None == [name |-> "", ftype |-> "none", inode |-> 0]    \* the result -1

\* What read_dentry_by_index finds; entries that are not in use are empty.
read_dentry_by_index(index) ==
    IF index >= DirEntries - 1 THEN None
    ELSE IF index < NumDirs THEN Directory[index + 1]
         ELSE [name |-> "", ftype |-> "rtc", inode |-> 0]

read_dentry_by_name(fname) ==
    IF fname \notin Names THEN None
    ELSE read_dentry_by_index(
           (CHOOSE i \in 1..NumDirs : Directory[i].name = fname) - 1)

\* A bug for the checks: a read ends with the block that it began in.
BugStops(inode, offset, length, n) ==
    \/ n >= length
    \/ n > 0 /\ (offset + n) % BlockSize = 0

\* Where the loops of read_data end: the tests of both, after n bytes, and at the
\* beginning of a block those for the end of the file and of the inode.
Stops(inode, offset, length, n) ==
    \/ n >= Length[inode]
    \/ n >= length
    \/ /\ n = 0 \/ (offset + n) % BlockSize = 0
       /\ \/ offset + n >= Length[inode]
          \/ (offset + n) \div BlockSize >= INodeBlocks

Readable(inode) == inode \in Inode /\ Length[inode] # 0

\* n is what read_data returns: the first count at which its loops end.
Returns(inode, offset, length, n) ==
    /\ n \in 0..length
    /\ Stops(inode, offset, length, n)
    /\ \A m \in 0..(n - 1) : ~Stops(inode, offset, length, m)

Byte == Nat \X Nat

\* The place of byte k of the file, or of the block behind its end.
Place(inode, k) == <<Blocks[inode][k \div BlockSize], k % BlockSize>>

\* What read_data copies to its buffer.
Copied(inode, offset, n) == [k \in 1..n |-> Place(inode, offset + k - 1)]

=============================================================================
