-------------------------- MODULE DescriptorsProofs --------------------------
(***************************************************************************)
(* For every image, block size and number of processes and descriptors:    *)
(* what read_data returns, the types of Descriptors, that descriptors are  *)
(* those that were opened, that reads deliver the file, and that a program *)
(* lists the entries of the directory in order.                            *)
(***************************************************************************)
EXTENDS Descriptors, SequenceTheorems, WellFoundedInduction, TLAPS

-----------------------------------------------------------------------------
(* read_data *)

LEMMA DivMod ==
    ASSUME NEW k \in Nat, NEW b \in Nat, b > 0
    PROVE  /\ k \div b \in Nat /\ k % b \in Nat
           /\ b * (k \div b) <= k /\ k < b * ((k \div b) + 1)
PROOF BY SMTT(30)

LEMMA DivUnique ==
    ASSUME NEW k \in Nat, NEW b \in Nat, b > 0, NEW q \in Nat,
           b * q <= k, k < b * (q + 1)
    PROVE  k \div b = q /\ (k = b * q => k % b = 0)
PROOF BY SMTT(30)

LEMMA Sizes1 ==
    /\ BlockSize \in Nat \ {0} /\ INodeBlocks \in Nat
    /\ INodeBlocks * BlockSize \in Nat
PROOF
  <1>1. BlockSize \in Nat \ {0} /\ INodeBlocks \in Nat
    BY FileSystemAssumption
  <1>2. QED
    BY <1>1

LEMMA LengthIs ==
    ASSUME NEW inode \in Inode
    PROVE  Length[inode] \in Nat /\ Length[inode] <= INodeBlocks * BlockSize
PROOF
  <1>1. Length \in [Inode -> 0..(INodeBlocks * BlockSize)]
    BY FileSystemAssumption
  <1>2. QED
    BY <1>1, Sizes1

\* A position within a file lies in a block that the inode has.
LEMMA InBlocks ==
    ASSUME NEW inode \in Inode, NEW k \in Nat, k < Length[inode]
    PROVE  k \div BlockSize < INodeBlocks
PROOF
  <1> DEFINE q == k \div BlockSize
  <1>1. q \in Nat /\ BlockSize * q \in Nat /\ BlockSize * q <= k
    BY Sizes1, DivMod
  <1>2. BlockSize * q < INodeBlocks * BlockSize
    BY <1>1, LengthIs, Sizes1
  <1>3. ~(q >= INodeBlocks)
    <2> SUFFICES ASSUME q >= INodeBlocks PROVE FALSE
      OBVIOUS
    <2> HIDE DEF q
    <2>1. BlockSize * q >= BlockSize * INodeBlocks
      BY <1>1, Sizes1, SMTT(30)
    <2>2. QED
      BY <1>1, <1>2, <2>1, Sizes1, SMTT(30)
  <1>4. QED
    BY <1>1, <1>3, Sizes1

\* A set of numbers has a least one.
LEMMA LeastNumber ==
    ASSUME NEW T, T \subseteq Nat, T # {}
    PROVE  \E m \in T : \A k \in T : m <= k
PROOF
  <1>1. PICK m \in T : \A k \in T : ~(<<k, m>> \in OpToRel(<, Nat))
    BY WFMin, NatLessThanWellFounded, Zenon
  <1>2. \A k \in T : ~(k < m)
    BY <1>1, Zenon DEF OpToRel
  <1>3. QED
    BY <1>2

\* The loops of read_data end, and where they do is settled by the inode, the offset
\* and the length: read_data returns, with one result (filesys.c:97-152).
THEOREM ReadDataReturns ==
    ASSUME NEW inode \in Inode, NEW offset \in Nat, NEW length \in Nat
    PROVE  \E n \in 0..length :
             \A m : Returns(inode, offset, length, m) <=> m = n
PROOF
  <1> DEFINE T == {k \in 0..length : Stops(inode, offset, length, k)}
  <1>1. T \subseteq Nat /\ T # {}
    <2>1. length \in T
      BY DEF Stops
    <2>2. QED
      BY <2>1
  <1>2. PICK n \in T : \A k \in T : n <= k
    BY <1>1, LeastNumber
  <1>3. Returns(inode, offset, length, n)
    <2>1. n \in 0..length /\ Stops(inode, offset, length, n)
      OBVIOUS
    <2>2. ASSUME NEW m \in 0..(n - 1) PROVE ~Stops(inode, offset, length, m)
      BY <1>2, <2>1
    <2>3. QED
      BY <2>1, <2>2 DEF Returns
  <1>4. ASSUME NEW m, Returns(inode, offset, length, m) PROVE m = n
    <2>1. /\ m \in 0..length /\ Stops(inode, offset, length, m)
          /\ \A k \in 0..(m - 1) : ~Stops(inode, offset, length, k)
      BY <1>4 DEF Returns
    <2>2. m \in T /\ n \in 0..length /\ Stops(inode, offset, length, n)
      BY <2>1
    <2>3. n <= m /\ ~(n <= m - 1)
      BY <1>2, <2>1, <2>2
    <2>4. QED
      BY <2>1, <2>2, <2>3
  <1>5. QED
    BY <1>3, <1>4

\* A read falls short only at the end of the file: with fewer bytes than asked
\* for, it has come to the end, whatever the offset and the blocks
\* (filesys.c:124-152).
THEOREM ShortOnlyAtEnd ==
    ASSUME NEW inode \in Inode, NEW offset \in Nat, NEW length \in Nat,
           NEW n \in Nat, Returns(inode, offset, length, n), n < length
    PROVE  offset + n >= Length[inode]
PROOF
  <1>1. Stops(inode, offset, length, n)
    BY DEF Returns
  <1>2. CASE n >= Length[inode]
    BY <1>2, LengthIs
  <1>3. CASE offset + n >= Length[inode]
    BY <1>3
  <1>4. CASE (offset + n) \div BlockSize >= INodeBlocks
    <2>1. Length[inode] \in Nat /\ INodeBlocks \in Nat /\ (offset + n) \div BlockSize \in Nat
      BY LengthIs, DivMod, Sizes1
    <2>2. ~(offset + n < Length[inode])
      BY <1>4, <2>1, InBlocks
    <2>3. QED
      BY <2>1, <2>2
  <1>5. QED
    BY <1>1, <1>2, <1>3, <1>4 DEF Stops

\* From the beginning of a file a read gives exactly what there is: the load of a
\* program by execute writes its length and no more (syscall.c:199).
THEOREM LoadIsExact ==
    ASSUME NEW inode \in Inode, NEW length \in Nat,
           NEW n \in Nat, Returns(inode, 0, length, n)
    PROVE  n = IF length < Length[inode] THEN length ELSE Length[inode]
PROOF
  <1>1. Length[inode] \in Nat
    BY LengthIs
  <1>2. n <= length
    BY DEF Returns
  <1>3. n <= Length[inode]
    <2> SUFFICES ASSUME Length[inode] < n PROVE FALSE
      BY <1>1
    <2>1. Stops(inode, 0, length, Length[inode])
      BY <1>1 DEF Stops
    <2>2. Length[inode] \in 0..(n - 1)
      BY <1>1
    <2>3. QED
      BY <2>1, <2>2 DEF Returns
  <1>4. n < length => n >= Length[inode]
    BY <1>1, ShortOnlyAtEnd
  <1>5. QED
    BY <1>1, <1>2, <1>3, <1>4

\* No read leaves the blocks of its inode.
LEMMA StaysInBlocks ==
    ASSUME NEW inode \in Inode, NEW offset \in Nat, NEW length \in Nat,
           NEW n \in Nat, Returns(inode, offset, length, n),
           NEW m \in 0..(n - 1)
    PROVE  (offset + m) \div BlockSize \in 0..(INodeBlocks - 1)
PROOF
  <1> DEFINE q == (offset + m) \div BlockSize
  <1>1. /\ q \in Nat /\ BlockSize * q \in Nat
        /\ BlockSize * q <= offset + m /\ offset + m < BlockSize * (q + 1)
        /\ BlockSize * (q + 1) \in Nat
    BY Sizes1, DivMod
  <1> HIDE DEF q
  \* The count at which the block of the byte was entered.
  <1>2. PICK s \in 0..m :
          /\ BlockSize * q <= offset + s /\ offset + s <= offset + m
          /\ s = 0 \/ offset + s = BlockSize * q
    <2>1. CASE BlockSize * q <= offset
      BY <1>1, <2>1
    <2>2. CASE BlockSize * q > offset
      <3>1. BlockSize * q - offset \in 0..m
        BY <1>1, <2>2
      <3>2. QED
        BY <1>1, <3>1
    <2>3. QED
      BY <1>1, <2>1, <2>2
  <1>3. /\ (offset + s) \div BlockSize = q
        /\ offset + s = BlockSize * q => (offset + s) % BlockSize = 0
    <2>1. offset + s \in Nat /\ BlockSize * q <= offset + s /\ offset + s < BlockSize * (q + 1)
      BY <1>1, <1>2
    <2>2. QED
      BY <1>1, <2>1, Sizes1, DivUnique
  <1>4. ~Stops(inode, offset, length, s)
    BY DEF Returns
  <1>5. ~(q >= INodeBlocks)
    BY <1>2, <1>3, <1>4 DEF Stops
  <1>6. q \in 0..(INodeBlocks - 1)
    BY <1>1, <1>5, Sizes1
  <1>7. QED
    BY <1>6 DEF q

\* What a read appends: n bytes of the file's blocks.
LEMMA CopiedIs ==
    ASSUME NEW inode \in Inode, NEW offset \in Nat, NEW length \in Nat,
           NEW n \in Nat, Returns(inode, offset, length, n)
    PROVE  /\ Copied(inode, offset, n) \in Seq(Byte)
           /\ Len(Copied(inode, offset, n)) = n
           /\ \A k \in 1..n : Copied(inode, offset, n)[k] = Place(inode, offset + k - 1)
PROOF
  <1>1. ASSUME NEW k \in 1..n PROVE Place(inode, offset + k - 1) \in Byte
    <2>1. k - 1 \in 0..(n - 1) /\ offset + (k - 1) = offset + k - 1 /\ offset + k - 1 \in Nat
      OBVIOUS
    <2>2. (offset + k - 1) \div BlockSize \in 0..(INodeBlocks - 1)
      BY <2>1, StaysInBlocks
    <2>3. (offset + k - 1) % BlockSize \in Nat
      BY <2>1, DivMod, Sizes1
    <2>4. Blocks[inode] \in [0..(INodeBlocks - 1) -> Nat]
      BY FileSystemAssumption
    <2>5. QED
      BY <2>2, <2>3, <2>4 DEF Place, Byte
  <1>2. Copied(inode, offset, n) \in [1..n -> Byte]
    BY <1>1 DEF Copied
  <1>3. QED
    BY <1>2 DEF Copied

-----------------------------------------------------------------------------
(* The directory *)

LEMMA NumDirsNat == NumDirs \in Nat
PROOF
  <1> DEFINE D == [name : STRING, ftype : Type, inode : Inode]
  <1>1. Directory \in Seq(D)
    BY FileSystemAssumption
  <1> HIDE DEF D
  <1>2. QED
    BY <1>1 DEF NumDirs

LEMMA EntryTypes ==
    ASSUME NEW i \in 1..NumDirs
    PROVE  /\ Directory[i] \in [name : STRING, ftype : Type, inode : Inode]
           /\ Directory[i].name \in Names
PROOF
  <1> DEFINE D == [name : STRING, ftype : Type, inode : Inode]
  <1>1. Directory \in Seq(D)
    BY FileSystemAssumption
  <1> HIDE DEF D
  <1>2. Directory[i] \in D
    BY <1>1 DEF NumDirs
  <1>3. QED
    BY <1>2 DEF D, Names

\* An entry that is found is one of the directory, with the name asked for.
LEMMA Found ==
    ASSUME NEW fname \in Names, read_dentry_by_name(fname) # None
    PROVE  /\ read_dentry_by_name(fname) \in [name : STRING, ftype : Type, inode : Inode]
           /\ read_dentry_by_name(fname).name = fname
PROOF
  <1> DEFINE i == CHOOSE i \in 1..NumDirs : Directory[i].name = fname
  <1>1. i \in 1..NumDirs /\ Directory[i].name = fname
    BY DEF Names
  <1> HIDE DEF i
  <1>2. NumDirs \in Nat
    BY NumDirsNat
  <1>3. read_dentry_by_name(fname) = read_dentry_by_index(i - 1)
    BY DEF read_dentry_by_name, i
  <1>4. read_dentry_by_index(i - 1) = Directory[i]
    <2>1. i - 1 < NumDirs /\ (i - 1) + 1 = i
      BY <1>1, <1>2
    <2>2. read_dentry_by_index(i - 1) # None
      BY <1>3
    <2>3. QED
      BY <2>1, <2>2 DEF read_dentry_by_index
  <1>5. QED
    BY <1>1, <1>3, <1>4, EntryTypes

LEMMA NameByIndex ==
    ASSUME NEW index \in Nat, read_dentry_by_index(index) # None
    PROVE  read_dentry_by_index(index).name \in Names \cup {""}
PROOF
  <1>1. NumDirs \in Nat
    BY NumDirsNat
  <1>2. CASE index < NumDirs
    <2>1. index + 1 \in 1..NumDirs
      BY <1>1, <1>2
    <2>2. QED
      BY <1>2, <2>1, EntryTypes DEF read_dentry_by_index
  <1>3. CASE ~(index < NumDirs)
    BY <1>3 DEF read_dentry_by_index
  <1>4. QED
    BY <1>2, <1>3

\* open_file's second look-up finds what the first found: no open fails after
\* its descriptor has been marked (syscall.c:596-602).
LEMMA OpenSucceeds ==
    ASSUME NEW fname \in Names, read_dentry_by_name(fname) # None
    PROVE  DeviceOpens(read_dentry_by_name(fname))
PROOF BY Found DEF DeviceOpens

-----------------------------------------------------------------------------
(* One descriptor *)

\* Everything before the position has been read; while the position is within the
\* file, nothing else has, so that the next read goes on where the last ended.
Delivered(d, bytes) ==
    /\ d.inode \in Inode
    /\ \A k \in 0..(Length[d.inode] - 1) :
         k < d.filepos => k < Len(bytes) /\ bytes[k + 1] = Place(d.inode, k)
    /\ d.filepos < Length[d.inode] => Len(bytes) = d.filepos

\* What holds of a descriptor d that a program knows by a name, and of the bytes
\* that it has read from it.
Good(d, name, bytes) ==
    /\ d.present <=> name # ""
    /\ d.present => /\ d.fileop = read_dentry_by_name(name).ftype
                    /\ d.inode  = read_dentry_by_name(name).inode
    /\ d.present /\ d.fileop = "file" => Delivered(d, bytes)
    /\ d.present /\ d.fileop = "rtc" => d.filepos \in Periods

LEMMA GoodClosed == ASSUME NEW i, NEW bytes PROVE Good(Closed(i), "", bytes)
PROOF BY DEF Good, Closed

LEMMA PeriodNat == Periods \subseteq Nat
PROOF
  <1>1. \A f \in Frequencies \cup {MinFreq} : f \in Nat /\ f > 0 /\ MaxFreq \in Nat
    BY DescriptorsAssumption
  <1>2. ASSUME NEW f \in Frequencies \cup {MinFreq} PROVE MaxFreq \div f \in Nat
    BY <1>1, DivMod
  <1>3. QED
    BY <1>2 DEF Periods

LEMMA GoodOpened ==
    ASSUME NEW fname \in Names, NEW d, d = read_dentry_by_name(fname), d # None
    PROVE  LET new == [fileop |-> d.ftype, inode |-> d.inode,
                       filepos |-> FirstPos(d), present |-> TRUE]
           IN  /\ new \in Descriptor
               /\ Good(new, fname, <<>>)
PROOF
  <1>1. d.ftype \in Type /\ d.inode \in Inode /\ fname # ""
    BY Found, FileSystemAssumption
  <1>2. MaxFreq \div MinFreq \in Periods
    BY DEF Periods
  <1>3. FirstPos(d) \in Nat /\ (d.ftype = "rtc" => FirstPos(d) \in Periods)
        /\ (d.ftype # "rtc" => FirstPos(d) = 0)
    BY <1>2, PeriodNat DEF FirstPos
  <1> DEFINE new == [fileop |-> d.ftype, inode |-> d.inode,
                     filepos |-> FirstPos(d), present |-> TRUE]
  <1>4. new \in Descriptor
    BY <1>1, <1>3 DEF Descriptor
  <1>5. new.fileop = "file" => Delivered(new, <<>>)
    <2> SUFFICES ASSUME d.ftype = "file" PROVE Delivered(new, <<>>)
      OBVIOUS
    <2>1. new.filepos = 0 /\ new.inode = d.inode /\ Length[d.inode] \in Nat
      BY <1>1, <1>3, LengthIs
    <2> HIDE DEF new
    <2>2. \A k \in 0..(Length[new.inode] - 1) : ~(k < new.filepos)
      BY <2>1
    <2>3. Len(<<>>) = 0
      OBVIOUS
    <2>4. QED
      BY <1>1, <2>1, <2>2, <2>3 DEF Delivered
  <1>6. Good(new, fname, <<>>)
    BY <1>1, <1>3, <1>5 DEF Good
  <1>7. QED
    BY <1>4, <1>6

LEMMA Joined ==
    ASSUME NEW S, NEW s \in Seq(S), NEW t \in Seq(S)
    PROVE  /\ s \o t \in Seq(S)
           /\ Len(s \o t) = Len(s) + Len(t)
           /\ \A j \in 1..Len(s) : (s \o t)[j] = s[j]
           /\ \A j \in (Len(s) + 1)..(Len(s) + Len(t)) : (s \o t)[j] = t[j - Len(s)]
PROOF OBVIOUS

\* A read keeps a descriptor good: it delivers what comes next.
LEMMA GoodRead ==
    ASSUME NEW d \in Descriptor, NEW name, NEW bytes \in Seq(Byte),
           Good(d, name, bytes), d.present, d.fileop = "file",
           NEW nbytes \in Nat, NEW n \in 0..nbytes,
           Returns(d.inode, d.filepos, nbytes, n)
    PROVE  /\ [d EXCEPT !.filepos = @ + nbytes] \in Descriptor
           /\ bytes \o Copied(d.inode, d.filepos, n) \in Seq(Byte)
           /\ Good([d EXCEPT !.filepos = @ + nbytes], name,
                   bytes \o Copied(d.inode, d.filepos, n))
PROOF
  <1> DEFINE new == [d EXCEPT !.filepos = @ + nbytes]
             more == Copied(d.inode, d.filepos, n)
             all == bytes \o more
  <1>1. /\ d.filepos \in Nat /\ n \in Nat /\ d.inode \in Inode /\ Delivered(d, bytes)
        /\ Length[d.inode] \in Nat
    <2>1. d.filepos \in Nat
      BY DEF Descriptor
    <2>2. Delivered(d, bytes)
      BY DEF Good
    <2>3. d.inode \in Inode
      BY <2>2 DEF Delivered
    <2>4. QED
      BY <2>1, <2>2, <2>3, LengthIs
  <1>2. /\ new \in Descriptor
        /\ new.filepos = d.filepos + nbytes /\ new.inode = d.inode
        /\ new.present = d.present /\ new.fileop = d.fileop
    <2>1. d.filepos + nbytes \in Nat
      BY <1>1
    <2>2. QED
      BY <2>1 DEF Descriptor
  <1>3. /\ more \in Seq(Byte) /\ Len(more) = n /\ Len(bytes) \in Nat
        /\ \A j \in 1..n : more[j] = Place(d.inode, d.filepos + j - 1)
    <2> HIDE DEF new
    <2>1. d.inode \in Inode /\ d.filepos \in Nat /\ n \in Nat
      BY <1>1
    <2>2. Len(bytes) \in Nat
      OBVIOUS
    <2>3. QED
      BY <2>1, <2>2, CopiedIs
  <1> HIDE DEF more
  <1>4. /\ all \in Seq(Byte)
        /\ Len(all) = Len(bytes) + n
        /\ \A j \in 1..Len(bytes) : all[j] = bytes[j]
        /\ \A j \in (Len(bytes) + 1)..(Len(bytes) + n) : all[j] = more[j - Len(bytes)]
    BY <1>3, Joined
  <1> HIDE DEF all, new
  <1>5. n < nbytes => d.filepos + n >= Length[d.inode]
    BY <1>1, ShortOnlyAtEnd
  <1>6. ASSUME NEW k \in 0..(Length[d.inode] - 1), k < d.filepos + nbytes
        PROVE  /\ k < Len(all)
               /\ all[k + 1] = Place(d.inode, k)
    <2>1. CASE k < d.filepos
      <3>1. k < Len(bytes) /\ bytes[k + 1] = Place(d.inode, k)
        BY <1>1, <2>1 DEF Delivered
      <3>2. k + 1 \in 1..Len(bytes) /\ k < Len(bytes) + n
        BY <1>1, <1>3, <3>1
      <3>3. all[k + 1] = bytes[k + 1]
        BY <1>4, <3>2
      <3>4. QED
        BY <1>4, <3>1, <3>2, <3>3
    <2>2. CASE ~(k < d.filepos)
      <3>1. Len(bytes) = d.filepos
        BY <1>1, <2>2 DEF Delivered
      <3>2. k < d.filepos + n
        BY <1>1, <1>5, <1>6
      <3>3. PICK j \in (Len(bytes) + 1)..(Len(bytes) + n) :
              /\ j = k + 1 /\ j - Len(bytes) \in 1..n
              /\ d.filepos + (j - Len(bytes)) - 1 = k
        BY <1>1, <1>3, <2>2, <3>1, <3>2
      <3>4. more[j - Len(bytes)] = Place(d.inode, k)
        BY <1>3, <3>3
      <3>5. all[j] = more[j - Len(bytes)]
        BY <1>4, <3>3
      <3>6. k < Len(bytes) + n
        BY <1>1, <3>1, <3>2
      <3>7. QED
        BY <1>4, <3>3, <3>4, <3>5, <3>6
    <2>3. QED
      BY <2>1, <2>2
  <1>7. ASSUME d.filepos + nbytes < Length[d.inode]
        PROVE  Len(all) = d.filepos + nbytes
    <2>1. n = nbytes
      BY <1>1, <1>5, <1>7
    <2>2. Len(bytes) = d.filepos
      BY <1>1, <1>7 DEF Delivered
    <2>3. QED
      BY <1>4, <2>1, <2>2
  <1>8. Delivered(new, all)
    BY <1>1, <1>2, <1>6, <1>7 DEF Delivered
  <1>9. Good(new, name, all)
    BY <1>2, <1>8 DEF Good
  <1>10. QED
    BY <1>2, <1>4, <1>9 DEF new, more, all

-----------------------------------------------------------------------------
(* The invariant *)

\* The base shell is at the bottom of the chain, and every descriptor of every
\* PCB, of programs that run or not, is good.
IInv ==
    /\ TypeInv
    /\ chain[1] = Base
    /\ \A p \in Pids : \A fd \in Fd : Good(fdarray[p][fd], known[p][fd], got[p][fd])

LEMMA TopIsPid == ASSUME IInv PROVE Top \in Pids
PROOF
  <1>1. chain \in Seq(Pids) /\ chain # <<>>
    BY DEF IInv, TypeInv
  <1>2. Len(chain) \in 1..Len(chain)
    BY <1>1
  <1>3. QED
    BY <1>1, <1>2 DEF Top

LEMMA LiveArePids == ASSUME IInv PROVE Live \subseteq Pids
PROOF
  <1>1. chain \in Seq(Pids)
    BY DEF IInv, TypeInv
  <1>2. QED
    BY <1>1 DEF Live

LEMMA ClosedType == ASSUME NEW i \in {-1, 0} PROVE Closed(i) \in Descriptor
PROOF
  <1>1. NumInodes \in Nat /\ NumInodes # 0
    BY FileSystemAssumption
  <1>2. 0 \in Inode
    BY <1>1 DEF Inode
  <1>3. QED
    BY <1>2 DEF Closed, Descriptor

\* A step that gives process p a table with nothing open.
LEMMA TableStep ==
    ASSUME IInv, NEW p \in Pids, NEW table \in [Fd -> Descriptor],
           \A fd \in Fd : ~table[fd].present,
           fdarray' = [fdarray EXCEPT ![p] = table], Forget(p),
           chain' \in Seq(Pids), chain' # <<>>, chain'[1] = Base
    PROVE  IInv'
PROOF
  <1>1. Nothing \in [Fd -> Names \cup {""}]
    BY DEF Nothing
  <1>2. NoneRead \in [Fd -> Seq(Byte)] /\ NoneRead \in [Fd -> Seq(Names \cup {""})]
    BY DEF NoneRead
  <1>3. TypeInv'
    BY <1>1, <1>2 DEF IInv, TypeInv, Forget
  <1>4. ASSUME NEW q \in Pids, NEW fd \in Fd
        PROVE  Good(fdarray'[q][fd], known'[q][fd], got'[q][fd])
    <2>1. CASE q = p
      <3>1. fdarray'[q][fd] = table[fd] /\ known'[q][fd] = ""
        BY <2>1 DEF IInv, TypeInv, Forget, Nothing
      <3>2. QED
        BY <3>1 DEF Good
    <2>2. CASE q # p
      <3>1. fdarray'[q] = fdarray[q] /\ known'[q] = known[q] /\ got'[q] = got[q]
        BY <2>2 DEF IInv, TypeInv, Forget
      <3>2. QED
        BY <3>1 DEF IInv
    <2>3. QED
      BY <2>1, <2>2
  <1>5. QED
    BY <1>3, <1>4 DEF IInv, Good, Delivered

\* A step that changes one descriptor of the running program, and leaves it good.
LEMMA DescriptorStep ==
    ASSUME IInv, NEW fd \in Fd, NEW d \in Descriptor, NEW name \in Names \cup {""},
           NEW bytes \in Seq(Byte), NEW names \in Seq(Names \cup {""}),
           Good(d, name, bytes),
           fdarray' = [fdarray EXCEPT ![Top][fd] = d],
           known' = [known EXCEPT ![Top][fd] = name],
           got' = [got EXCEPT ![Top][fd] = bytes],
           listed' = [listed EXCEPT ![Top][fd] = names],
           chain' = chain
    PROVE  IInv'
PROOF
  <1>1. Top \in Pids
    BY TopIsPid
  <1>2. TypeInv'
    BY <1>1 DEF IInv, TypeInv
  <1>3. ASSUME NEW q \in Pids, NEW other \in Fd
        PROVE  Good(fdarray'[q][other], known'[q][other], got'[q][other])
    <2>1. CASE q = Top /\ other = fd
      <3>1. fdarray'[q][other] = d /\ known'[q][other] = name /\ got'[q][other] = bytes
        BY <1>1, <2>1 DEF IInv, TypeInv
      <3>2. QED
        BY <3>1
    <2>2. CASE ~(q = Top /\ other = fd)
      <3>1. /\ fdarray'[q][other] = fdarray[q][other]
            /\ known'[q][other] = known[q][other]
            /\ got'[q][other] = got[q][other]
        BY <1>1, <2>2 DEF IInv, TypeInv
      <3>2. QED
        BY <3>1 DEF IInv
    <2>3. QED
      BY <2>1, <2>2
  <1>4. QED
    BY <1>2, <1>3 DEF IInv, Good, Delivered

LEMMA InitIInv == ASSUME Init PROVE IInv
PROOF
  <1>1. Closed(-1) \in Descriptor
    BY ClosedType
  <1>2. fdarray \in [Pids -> [Fd -> Descriptor]]
    BY <1>1 DEF Init
  <1>3. chain \in Seq(Pids) /\ chain # <<>> /\ chain[1] = Base
    BY DescriptorsAssumption DEF Init
  <1>4. known \in [Pids -> [Fd -> Names \cup {""}]]
    BY DEF Init, Nothing
  <1>5. /\ got \in [Pids -> [Fd -> Seq(Byte)]]
        /\ listed \in [Pids -> [Fd -> Seq(Names \cup {""})]]
    BY DEF Init, NoneRead
  <1>6. ASSUME NEW p \in Pids, NEW fd \in Fd
        PROVE  Good(fdarray[p][fd], known[p][fd], got[p][fd])
    <2>1. fdarray[p][fd] = Closed(-1) /\ known[p][fd] = ""
      BY DEF Init, Nothing
    <2>2. QED
      BY <2>1, GoodClosed
  <1>7. QED
    BY <1>2, <1>3, <1>4, <1>5, <1>6 DEF IInv, TypeInv

-----------------------------------------------------------------------------
(* The steps *)

LEMMA FreshIsClosed ==
    ASSUME NEW p
    PROVE  FreshTable(p) \in [Fd -> Descriptor] /\ \A fd \in Fd : ~FreshTable(p)[fd].present
PROOF
  <1>1. Closed(-1) \in Descriptor
    BY ClosedType
  <1>2. QED
    BY <1>1 DEF FreshTable, Closed

LEMMA ExecuteStep == ASSUME IInv, Execute PROVE IInv'
PROOF
  <1>1. PICK p \in Pids : chain' = Append(chain, p) /\ Start(p)
    BY DEF Execute
  <1>2. chain \in Seq(Pids) /\ chain # <<>> /\ chain[1] = Base
    BY DEF IInv, TypeInv
  <1>3. chain' \in Seq(Pids) /\ chain' # <<>> /\ chain'[1] = Base
    BY <1>1, <1>2
  <1>4. QED
    BY <1>1, <1>3, FreshIsClosed, TableStep DEF Start

LEMMA HaltStep == ASSUME IInv, Halt PROVE IInv'
PROOF
  <1> DEFINE table == [fd \in Fd |-> IF fdarray[Top][fd].present
                                       THEN Closed(0) ELSE fdarray[Top][fd]]
  <1>1. Top \in Pids
    BY TopIsPid
  <1>2. chain \in Seq(Pids) /\ chain # <<>> /\ chain[1] = Base
        /\ fdarray \in [Pids -> [Fd -> Descriptor]]
    BY DEF IInv, TypeInv
  <1>3. Len(chain) \in Nat /\ Len(chain) >= 2
    BY <1>2 DEF Halt, Top
  <1>4. chain' \in Seq(Pids) /\ chain' # <<>> /\ chain'[1] = Base
    <2>1. chain' = SubSeq(chain, 1, Len(chain) - 1)
      BY DEF Halt
    <2>2. \A i \in 1..(Len(chain) - 1) : chain[i] \in Pids
      BY <1>2
    <2>3. Len(chain) - 1 \in Int /\ 1 <= Len(chain) - 1
      BY <1>3
    <2>4. /\ chain' \in Seq(Pids) /\ Len(chain') = Len(chain) - 1
          /\ chain'[1] = chain[1]
      BY <2>1, <2>2, <2>3, SubSeqProperties
    <2>5. QED
      BY <1>2, <2>3, <2>4
  <1>5. table \in [Fd -> Descriptor] /\ \A fd \in Fd : ~table[fd].present
    <2>1. Closed(0) \in Descriptor /\ ~Closed(0).present
      BY ClosedType DEF Closed
    <2>2. QED
      BY <1>1, <1>2, <2>1
  <1>6. fdarray' = [fdarray EXCEPT ![Top] = table]
    BY <1>1, <1>2 DEF Halt
  <1> HIDE DEF table
  <1>7. QED
    BY <1>1, <1>4, <1>5, <1>6, TableStep DEF Halt

LEMMA RestartStep == ASSUME IInv, RestartBase PROVE IInv'
PROOF
  <1>1. Base \in Pids
    BY DescriptorsAssumption
  <1>2. chain' \in Seq(Pids) /\ chain' # <<>> /\ chain'[1] = Base
    BY DEF IInv, TypeInv, RestartBase
  <1>3. QED
    BY <1>1, <1>2, FreshIsClosed, TableStep DEF RestartBase, Start

LEMMA OpenStep == ASSUME IInv, NEW fname \in Names, Open(fname) PROVE IInv'
PROOF
  <1> DEFINE d == read_dentry_by_name(fname)
             new == [fileop |-> d.ftype, inode |-> d.inode,
                     filepos |-> FirstPos(d), present |-> TRUE]
  <1>1. d # None
    BY DEF Open
  <1>2. DeviceOpens(d)
    BY <1>1, OpenSucceeds
  <1>3. new \in Descriptor /\ Good(new, fname, <<>>)
    BY <1>1, GoodOpened
  <1>4. PICK fd \in Fd :
          /\ fdarray' = [fdarray EXCEPT ![Top][fd] = new]
          /\ known' = [known EXCEPT ![Top][fd] = fname]
          /\ got' = [got EXCEPT ![Top][fd] = <<>>]
          /\ listed' = [listed EXCEPT ![Top][fd] = <<>>]
    BY <1>2 DEF Open, Free
  <1>5. chain' = chain
    BY DEF Open
  <1>6. <<>> \in Seq(Byte) /\ <<>> \in Seq(Names \cup {""})
    OBVIOUS
  <1> HIDE DEF new
  <1>7. QED
    BY <1>3, <1>4, <1>5, <1>6, DescriptorStep

LEMMA CloseStep == ASSUME IInv, NEW fd \in Fd, Close(fd) PROVE IInv'
PROOF
  <1>1. Closed(0) \in Descriptor /\ Good(Closed(0), "", <<>>)
    BY ClosedType, GoodClosed
  <1>2. <<>> \in Seq(Byte) /\ <<>> \in Seq(Names \cup {""})
    OBVIOUS
  <1>3. QED
    BY <1>1, <1>2, DescriptorStep DEF Close

\* What the running program has at a descriptor.
LEMMA AtTop ==
    ASSUME IInv, NEW fd \in Fd
    PROVE  /\ Top \in Pids
           /\ fdarray[Top][fd] \in Descriptor
           /\ known[Top][fd] \in Names \cup {""}
           /\ got[Top][fd] \in Seq(Byte)
           /\ listed[Top][fd] \in Seq(Names \cup {""})
           /\ Good(fdarray[Top][fd], known[Top][fd], got[Top][fd])
           /\ known = [known EXCEPT ![Top][fd] = known[Top][fd]]
           /\ got = [got EXCEPT ![Top][fd] = got[Top][fd]]
           /\ listed = [listed EXCEPT ![Top][fd] = listed[Top][fd]]
PROOF
  <1>1. Top \in Pids
    BY TopIsPid
  <1>2. QED
    BY <1>1 DEF IInv, TypeInv

LEMMA ReadFileStep ==
    ASSUME IInv, NEW fd \in Fd, NEW nbytes \in Sizes, ReadFile(fd, nbytes) PROVE IInv'
PROOF
  <1> DEFINE d == fdarray[Top][fd]
             new == [d EXCEPT !.filepos = @ + nbytes]
  <1>1. nbytes \in Nat
    BY DescriptorsAssumption
  <1>2. PICK n \in 0..nbytes :
          /\ Returns(d.inode, d.filepos, nbytes, n)
          /\ got' = [got EXCEPT ![Top][fd] = @ \o Copied(d.inode, d.filepos, n)]
    BY DEF ReadFile, Reads, Table
  <1> DEFINE bytes == got[Top][fd] \o Copied(d.inode, d.filepos, n)
  <1>3. d.present /\ d.fileop = "file"
    BY DEF ReadFile, Reads, Table
  <1>4. new \in Descriptor /\ bytes \in Seq(Byte) /\ Good(new, known[Top][fd], bytes)
    BY <1>1, <1>2, <1>3, AtTop, GoodRead
  <1>5. fdarray' = [fdarray EXCEPT ![Top][fd] = new]
    BY AtTop DEF ReadFile, Reads, Table, IInv, TypeInv
  <1>6. got' = [got EXCEPT ![Top][fd] = bytes]
    BY <1>2, AtTop DEF IInv, TypeInv
  <1>7. UNCHANGED <<chain, known, listed>>
    BY DEF ReadFile
  <1> HIDE DEF new, bytes
  <1>8. QED
    BY <1>4, <1>5, <1>6, <1>7, AtTop, DescriptorStep

\* A descriptor that is not a file's may change its position, an RTC's to a period.
LEMMA GoodMoved ==
    ASSUME NEW d \in Descriptor, NEW name, NEW bytes, NEW pos \in Nat,
           Good(d, name, bytes), d.present,
           d.fileop = "dir" \/ (d.fileop = "rtc" /\ pos \in Periods)
    PROVE  /\ [d EXCEPT !.filepos = pos] \in Descriptor
           /\ Good([d EXCEPT !.filepos = pos], name, bytes)
PROOF BY DEF Descriptor, Good

LEMMA ReadDirStep == ASSUME IInv, NEW fd \in Fd, ReadDir(fd) PROVE IInv'
PROOF
  <1> DEFINE d == fdarray[Top][fd]
             new == [d EXCEPT !.filepos = d.filepos + 1]
             names == IF MoreNames(d.filepos + 1)
                        THEN Append(listed[Top][fd], read_dentry_by_index(d.filepos).name)
                        ELSE listed[Top][fd]
  <1>1. d.present /\ d.fileop = "dir" /\ read_dentry_by_index(d.filepos) # None
    BY DEF ReadDir, Reads, Table
  <1>2. d \in Descriptor /\ d.filepos \in Nat /\ d.filepos + 1 \in Nat
    <2>1. d \in Descriptor
      BY AtTop
    <2>2. d.filepos \in Nat
      BY <2>1 DEF Descriptor
    <2>3. QED
      BY <2>1, <2>2
  <1>3. new \in Descriptor /\ Good(new, known[Top][fd], got[Top][fd])
    BY <1>1, <1>2, AtTop, GoodMoved
  <1>4. names \in Seq(Names \cup {""})
    <2>1. read_dentry_by_index(d.filepos).name \in Names \cup {""}
      BY <1>1, <1>2, NameByIndex
    <2>2. listed[Top][fd] \in Seq(Names \cup {""})
      BY AtTop
    <2>3. QED
      BY <2>1, <2>2, Zenon, AppendProperties
  <1>5. fdarray' = [fdarray EXCEPT ![Top][fd] = new]
    BY AtTop DEF ReadDir, Reads, Table, IInv, TypeInv
  <1>6. listed' = [listed EXCEPT ![Top][fd] = names]
    BY AtTop DEF ReadDir, Reads, Table, IInv, TypeInv
  <1>7. UNCHANGED <<chain, known, got>>
    BY DEF ReadDir
  <1> HIDE DEF new, names
  <1>8. QED
    BY <1>3, <1>4, <1>5, <1>6, <1>7, AtTop, DescriptorStep

LEMMA WriteStep == ASSUME IInv, NEW fd \in Fd, Write(fd) PROVE IInv'
PROOF
  <1> DEFINE d == fdarray[Top][fd]
  <1>1. PICK f \in Frequencies :
          fdarray' = [fdarray EXCEPT ![Top][fd].filepos = MaxFreq \div f]
    BY DEF Write
  <1> DEFINE new == [d EXCEPT !.filepos = MaxFreq \div f]
  <1>2. MaxFreq \div f \in Periods /\ MaxFreq \div f \in Nat
    BY PeriodNat DEF Periods
  <1>3. d.present /\ d.fileop = "rtc"
    BY DEF Write, Table
  <1>4. new \in Descriptor /\ Good(new, known[Top][fd], got[Top][fd])
    BY <1>2, <1>3, AtTop, GoodMoved
  <1>5. fdarray' = [fdarray EXCEPT ![Top][fd] = new]
    BY <1>1, AtTop DEF IInv, TypeInv
  <1>6. UNCHANGED <<chain, known, got, listed>>
    BY DEF Write
  <1> HIDE DEF new
  <1>7. QED
    BY <1>4, <1>5, <1>6, AtTop, DescriptorStep

LEMMA NextIInv == ASSUME IInv, [Next]_vars PROVE IInv'
PROOF
  <1>1. CASE UNCHANGED vars
    <2>1. /\ chain' = chain /\ fdarray' = fdarray /\ known' = known
          /\ got' = got /\ listed' = listed
      BY <1>1 DEF vars
    <2>2. TypeInv' /\ chain'[1] = Base
      BY <2>1 DEF IInv, TypeInv
    <2>3. ASSUME NEW p \in Pids, NEW fd \in Fd
          PROVE  Good(fdarray'[p][fd], known'[p][fd], got'[p][fd])
      BY <2>1 DEF IInv
    <2>4. QED
      BY <2>2, <2>3 DEF IInv, Good, Delivered
  <1>2. CASE Next
    BY <1>2, ExecuteStep, HaltStep, RestartStep, OpenStep, CloseStep, ReadFileStep,
       ReadDirStep, WriteStep DEF Next
  <1>3. QED
    BY <1>1, <1>2

LEMMA IInvCorrect == Spec => []IInv
PROOF BY InitIInv, NextIInv, PTL DEF Spec

-----------------------------------------------------------------------------
(* What a directory descriptor has listed *)

\* The names that have been read through a directory descriptor are those of the
\* entries before its position, as far as read_dir returns them.
Listed(d, names) ==
    d.present /\ d.fileop = "dir" =>
      /\ Len(names) = IF MoreNames(d.filepos) THEN d.filepos ELSE MaxNumFiles
      /\ \A k \in 1..Len(names) : names[k] = read_dentry_by_index(k - 1).name

ListInv == \A p \in Pids : \A fd \in Fd : Listed(fdarray[p][fd], listed[p][fd])

\* A step that changes one descriptor of the running program.
LEMMA ListedStep ==
    ASSUME IInv, ListInv, NEW fd \in Fd, NEW d, NEW names,
           Listed(d, names),
           fdarray' = [fdarray EXCEPT ![Top][fd] = d],
           listed' = [listed EXCEPT ![Top][fd] = names]
    PROVE  ListInv'
PROOF
  <1>1. Top \in Pids
    BY TopIsPid
  <1>2. ASSUME NEW q \in Pids, NEW other \in Fd
        PROVE  Listed(fdarray'[q][other], listed'[q][other])
    <2>1. CASE q = Top /\ other = fd
      <3>1. fdarray'[q][other] = d /\ listed'[q][other] = names
        BY <1>1, <2>1 DEF IInv, TypeInv
      <3>2. QED
        BY <3>1
    <2>2. CASE ~(q = Top /\ other = fd)
      <3>1. fdarray'[q][other] = fdarray[q][other] /\ listed'[q][other] = listed[q][other]
        BY <1>1, <2>2 DEF IInv, TypeInv
      <3>2. QED
        BY <3>1 DEF ListInv
    <2>3. QED
      BY <2>1, <2>2
  <1>3. QED
    BY <1>2 DEF ListInv, Listed

\* A step that gives process p a table with nothing open.
LEMMA ListedTable ==
    ASSUME IInv, ListInv, NEW p \in Pids, NEW table,
           \A fd \in Fd : ~table[fd].present,
           fdarray' = [fdarray EXCEPT ![p] = table], Forget(p)
    PROVE  ListInv'
PROOF
  <1>1. ASSUME NEW q \in Pids, NEW fd \in Fd
        PROVE  Listed(fdarray'[q][fd], listed'[q][fd])
    <2>1. CASE q = p
      <3>1. fdarray'[q][fd] = table[fd]
        BY <2>1 DEF IInv, TypeInv
      <3>2. QED
        BY <3>1 DEF Listed
    <2>2. CASE q # p
      <3>1. fdarray'[q] = fdarray[q] /\ listed'[q] = listed[q]
        BY <2>2 DEF IInv, TypeInv, Forget
      <3>2. QED
        BY <3>1 DEF ListInv
    <2>3. QED
      BY <2>1, <2>2
  <1>2. QED
    BY <1>1 DEF ListInv, Listed

LEMMA ListedExecute == ASSUME IInv, ListInv, Execute PROVE ListInv'
PROOF BY FreshIsClosed, ListedTable DEF Execute, Start

LEMMA ListedRestart == ASSUME IInv, ListInv, RestartBase PROVE ListInv'
PROOF BY DescriptorsAssumption, FreshIsClosed, ListedTable DEF RestartBase, Start

LEMMA ListedHalt == ASSUME IInv, ListInv, Halt PROVE ListInv'
PROOF
  <1> DEFINE table == [fd \in Fd |-> IF fdarray[Top][fd].present
                                       THEN Closed(0) ELSE fdarray[Top][fd]]
  <1>1. Top \in Pids
    BY TopIsPid
  <1>2. \A fd \in Fd : ~table[fd].present
    BY DEF Closed
  <1>3. fdarray' = [fdarray EXCEPT ![Top] = table]
    BY <1>1 DEF Halt, IInv, TypeInv
  <1> HIDE DEF table
  <1>4. QED
    BY <1>1, <1>2, <1>3, ListedTable DEF Halt

LEMMA ListedOpen == ASSUME IInv, ListInv, NEW fname \in Names, Open(fname) PROVE ListInv'
PROOF
  <1> DEFINE d == read_dentry_by_name(fname)
             new == [fileop |-> d.ftype, inode |-> d.inode,
                     filepos |-> FirstPos(d), present |-> TRUE]
  <1>1. PICK fd \in Fd :
          /\ fdarray' = [fdarray EXCEPT ![Top][fd] = new]
          /\ listed' = [listed EXCEPT ![Top][fd] = <<>>]
    BY DEF Open, Free
  <1>2. ASSUME d.ftype = "dir" PROVE FirstPos(d) = 0 /\ MoreNames(0)
    BY <1>2, DescriptorsAssumption DEF FirstPos, MoreNames
  <1>3. Len(<<>>) = 0 /\ 1..0 = {}
    OBVIOUS
  <1>4. Listed(new, <<>>)
    BY <1>2, <1>3 DEF Listed
  <1> HIDE DEF new
  <1>5. QED
    BY <1>1, <1>4, ListedStep

LEMMA ListedClose == ASSUME IInv, ListInv, NEW fd \in Fd, Close(fd) PROVE ListInv'
PROOF
  <1>1. Listed(Closed(0), <<>>)
    BY DEF Listed, Closed
  <1>2. QED
    BY <1>1, ListedStep DEF Close

\* A read or a write of another device leaves the names as they are.
LEMMA ListedOther ==
    ASSUME IInv, ListInv, NEW fd \in Fd, NEW pos, listed' = listed,
           fdarray[Top][fd].fileop # "dir",
           fdarray' = [fdarray EXCEPT ![Top][fd].filepos = pos]
    PROVE  ListInv'
PROOF
  <1> DEFINE new == [fdarray[Top][fd] EXCEPT !.filepos = pos]
  <1>1. new.fileop # "dir" /\ Top \in Pids
    BY AtTop DEF Descriptor
  <1>2. fdarray' = [fdarray EXCEPT ![Top][fd] = new]
    BY AtTop DEF IInv, TypeInv
  <1> HIDE DEF new
  <1>3. Listed(new, listed[Top][fd])
    BY <1>1 DEF Listed
  <1>4. listed' = [listed EXCEPT ![Top][fd] = listed[Top][fd]]
    BY AtTop
  <1>5. QED
    BY <1>2, <1>3, <1>4, ListedStep

LEMMA ListedReadFile ==
    ASSUME IInv, ListInv, NEW fd \in Fd, NEW nbytes \in Sizes, ReadFile(fd, nbytes)
    PROVE  ListInv'
PROOF
  <1>1. fdarray[Top][fd].fileop # "dir" /\ listed' = listed
    BY DEF ReadFile, Reads, Table
  <1>2. fdarray' = [fdarray EXCEPT ![Top][fd].filepos = fdarray[Top][fd].filepos + nbytes]
    BY AtTop DEF ReadFile, IInv, TypeInv
  <1>3. QED
    BY <1>1, <1>2, ListedOther

LEMMA ListedWrite == ASSUME IInv, ListInv, NEW fd \in Fd, Write(fd) PROVE ListInv'
PROOF
  <1>1. fdarray[Top][fd].fileop # "dir" /\ listed' = listed
    BY DEF Write, Table
  <1>2. PICK f \in Frequencies :
          fdarray' = [fdarray EXCEPT ![Top][fd].filepos = MaxFreq \div f]
    BY DEF Write
  <1>3. QED
    BY <1>1, <1>2, ListedOther

LEMMA Appended ==
    ASSUME NEW S, NEW s \in Seq(S), NEW e \in S
    PROVE  /\ Len(Append(s, e)) = Len(s) + 1
           /\ Append(s, e)[Len(s) + 1] = e
           /\ \A k \in 1..Len(s) : Append(s, e)[k] = s[k]
PROOF OBVIOUS

\* read_dir appends the name at the position, until MAX_NUM_FILES have been read.
LEMMA ListedReadDir == ASSUME IInv, ListInv, NEW fd \in Fd, ReadDir(fd) PROVE ListInv'
PROOF
  <1> DEFINE d == fdarray[Top][fd]
             pos == d.filepos
             new == [d EXCEPT !.filepos = pos + 1]
             old == listed[Top][fd]
             entry == read_dentry_by_index(pos).name
             names == IF MoreNames(pos + 1) THEN Append(old, entry) ELSE old
  <1>1. d.present /\ d.fileop = "dir" /\ read_dentry_by_index(pos) # None
    BY DEF ReadDir, Reads, Table
  <1>2. d \in Descriptor /\ pos \in Nat /\ Top \in Pids
    BY AtTop DEF Descriptor
  <1>3. old \in Seq(Names \cup {""}) /\ entry \in Names \cup {""}
    BY <1>1, <1>2, AtTop, NameByIndex
  <1>4. MaxNumFiles \in Nat
    BY DescriptorsAssumption
  <1>5. /\ Len(old) = IF MoreNames(pos) THEN pos ELSE MaxNumFiles
        /\ \A k \in 1..Len(old) : old[k] = read_dentry_by_index(k - 1).name
    <2>1. Listed(d, old)
      BY <1>2 DEF ListInv
    <2>2. QED
      BY <1>1, <2>1 DEF Listed
  <1>6. new.filepos = pos + 1 /\ new.present /\ new.fileop = "dir"
    BY <1>1, <1>2 DEF Descriptor
  <1>7. fdarray' = [fdarray EXCEPT ![Top][fd] = new]
    BY AtTop DEF ReadDir, Table, IInv, TypeInv
  <1>8. listed' = [listed EXCEPT ![Top][fd] = names]
    BY AtTop DEF ReadDir, Table, IInv, TypeInv
  <1> HIDE DEF d, pos, new, old, entry
  <1>9. /\ Len(names) = IF MoreNames(pos + 1) THEN pos + 1 ELSE MaxNumFiles
        /\ \A k \in 1..Len(names) : names[k] = read_dentry_by_index(k - 1).name
    <2>1. CASE MoreNames(pos + 1)
      <3>1. Len(old) = pos
        BY <1>2, <1>4, <1>5, <2>1 DEF MoreNames
      <3>2. names = Append(old, entry)
        BY <2>1
      <3> HIDE DEF names
      <3>3. /\ Len(names) = pos + 1
            /\ names[pos + 1] = entry
            /\ \A k \in 1..pos : names[k] = old[k]
        BY <1>3, <3>1, <3>2, Appended
      <3>4. entry = read_dentry_by_index((pos + 1) - 1).name
        BY <1>2 DEF entry
      <3>5. ASSUME NEW k \in 1..(pos + 1)
            PROVE  names[k] = read_dentry_by_index(k - 1).name
        <4>1. CASE k = pos + 1
          BY <3>3, <3>4, <4>1
        <4>2. CASE k # pos + 1
          <5>1. k \in 1..pos
            BY <1>2, <4>2
          <5>2. QED
            BY <1>5, <3>1, <3>3, <5>1
        <4>3. QED
          BY <4>1, <4>2
      <3>6. QED
        BY <2>1, <3>3, <3>5
    <2>2. CASE ~MoreNames(pos + 1)
      <3>1. MoreNames(pos) => pos = MaxNumFiles
        BY <1>2, <1>4, <2>2 DEF MoreNames
      <3>2. names = old
        BY <2>2
      <3>3. QED
        BY <1>5, <2>2, <3>1, <3>2
    <2>3. QED
      BY <2>1, <2>2
  <1> HIDE DEF names
  <1>10. Listed(new, names)
    BY <1>6, <1>9 DEF Listed
  <1>11. QED
    BY <1>7, <1>8, <1>10, ListedStep

LEMMA NextListInv == ASSUME IInv, ListInv, [Next]_vars PROVE ListInv'
PROOF
  <1>1. CASE UNCHANGED vars
    BY <1>1 DEF vars, ListInv, Listed
  <1>2. CASE Next
    BY <1>2, ListedExecute, ListedHalt, ListedRestart, ListedOpen, ListedClose,
       ListedReadFile, ListedReadDir, ListedWrite DEF Next
  <1>3. QED
    BY <1>1, <1>2

LEMMA InitListInv == ASSUME Init PROVE ListInv
PROOF BY DEF Init, ListInv, Listed, Closed

-----------------------------------------------------------------------------
(* The theorems *)

\* The tables have their types, whatever the PCBs that are reused held before
\* (syscall.c:238-270).
THEOREM TypeCorrect == Spec => []TypeInv
PROOF
  <1>1. IInv => TypeInv
    BY DEF IInv
  <1>2. QED
    BY <1>1, IInvCorrect, PTL

\* Every program's open descriptors are those that it was given and has not closed,
\* for any directory with distinct names (syscall.c:543-605, 613-645).
THEOREM DescriptorsMatchCorrect == Spec => []DescriptorsMatch
PROOF
  <1>1. ASSUME IInv, NEW p \in Live, NEW fd \in Fd
        PROVE  Good(fdarray[p][fd], known[p][fd], got[p][fd])
    <2>1. p \in Pids
      BY <1>1, LiveArePids
    <2>2. QED
      BY <1>1, <2>1 DEF IInv
  <1>2. ASSUME IInv, NEW p \in Live, NEW fd \in Fd
        PROVE  LET d == fdarray[p][fd]
               IN  /\ d.present <=> known[p][fd] # ""
                   /\ d.present =>
                        /\ d.fileop = read_dentry_by_name(known[p][fd]).ftype
                        /\ d.inode  = read_dentry_by_name(known[p][fd]).inode
    <2>1. Good(fdarray[p][fd], known[p][fd], got[p][fd])
      BY <1>1, <1>2
    <2>2. QED
      BY <2>1, Zenon DEF Good
  <1>3. IInv => DescriptorsMatch
    BY <1>2, Zenon DEF DescriptorsMatch
  <1>4. QED
    BY <1>3, IInvCorrect, PTL

\* Reads of any sizes deliver a file of any length from its beginning, in order
\* and without a gap (filesys.c:97-152, 197-214).
THEOREM ReadsDeliverTheFileCorrect == Spec => []ReadsDeliverTheFile
PROOF
  <1>1. IInv => ReadsDeliverTheFile
    BY LiveArePids DEF IInv, ReadsDeliverTheFile, Good, Delivered
  <1>2. QED
    BY <1>1, IInvCorrect, PTL

\* An RTC descriptor's position is a period whenever read_rtc may use it
\* (rtc.c:128, 171, 200).
THEOREM RtcPeriodKeptCorrect == Spec => []RtcPeriodKept
PROOF
  <1>1. IInv => RtcPeriodKept
    BY LiveArePids DEF IInv, RtcPeriodKept, Good
  <1>2. QED
    BY <1>1, IInvCorrect, PTL

\* Whatever the image: what a program has read from a directory are the names of
\* its entries from the first on, in order and none twice, one per read until
\* MAX_NUM_FILES (filesys.c:270-309).
THEOREM ListedInOrder == Spec => []ListInv
PROOF
  <1>1. Init => ListInv
    BY InitListInv
  <1>2. IInv /\ ListInv /\ [Next]_vars => ListInv'
    BY NextListInv
  <1>3. QED
    BY <1>1, <1>2, IInvCorrect, PTL DEF Spec

\* An image with as many names as read_dir returns, MAX_NUM_FILES, and room for them
\* in the boot block.
FullDirectory == NumDirs = MaxNumFiles /\ NumDirs < DirEntries

\* On such an image a program that reads the directory to its end has every name,
\* once and in order (filesys.c:270-309).
THEOREM ListsEveryNameCorrect == ASSUME FullDirectory PROVE Spec => []ListsEveryName
PROOF
  <1>1. NumDirs \in Nat /\ DirEntries \in Nat /\ MaxNumFiles \in Nat
    BY NumDirsNat, FileSystemAssumption, DescriptorsAssumption
  <1>2. ASSUME NEW k \in 1..NumDirs
        PROVE  read_dentry_by_index(k - 1) = Directory[k]
    <2>1. ~(k - 1 >= DirEntries - 1) /\ k - 1 < NumDirs /\ (k - 1) + 1 = k
      BY <1>1 DEF FullDirectory
    <2>2. QED
      BY <2>1 DEF read_dentry_by_index
  <1>3. ASSUME IInv, ListInv, NEW p \in Live, NEW fd \in Fd,
               fdarray[p][fd].present, fdarray[p][fd].fileop = "dir"
        PROVE  /\ Len(listed[p][fd]) <= NumDirs
               /\ \A k \in 1..NumDirs :
                    k <= fdarray[p][fd].filepos =>
                      /\ k <= Len(listed[p][fd])
                      /\ listed[p][fd][k] = Directory[k].name
    <2> DEFINE pos == fdarray[p][fd].filepos
               names == listed[p][fd]
    <2>1. p \in Pids
      BY <1>3, LiveArePids
    <2>2. pos \in Nat
      BY <1>3, <2>1 DEF IInv, TypeInv, Descriptor
    <2>3. /\ Len(names) = IF MoreNames(pos) THEN pos ELSE MaxNumFiles
          /\ \A k \in 1..Len(names) : names[k] = read_dentry_by_index(k - 1).name
      BY <1>3, <2>1 DEF ListInv, Listed
    <2> HIDE DEF pos, names
    <2>4. Len(names) <= NumDirs /\ Len(names) \in Nat
      BY <1>1, <2>2, <2>3 DEF MoreNames, FullDirectory
    <2>5. ASSUME NEW k \in 1..NumDirs, k <= pos
          PROVE  k <= Len(names) /\ names[k] = Directory[k].name
      <3>1. k <= Len(names)
        BY <1>1, <2>2, <2>3, <2>5 DEF MoreNames, FullDirectory
      <3>2. k \in 1..Len(names)
        BY <2>4, <3>1
      <3>3. QED
        BY <1>2, <2>3, <3>1, <3>2
    <2>6. QED
      BY <2>4, <2>5 DEF pos, names
  <1>4. IInv /\ ListInv => ListsEveryName
    BY <1>3, Zenon DEF ListsEveryName
  <1>5. QED
    BY <1>4, IInvCorrect, ListedInOrder, PTL

=============================================================================
