---------------------------- MODULE DriveLayout -----------------------------
(***************************************************************************)
(* Where createDriveImage of src/Project4/mufa_fs/main.cpp puts the super  *)
(* block, the inodes and the data blocks on a drive of a given size, and   *)
(* which bytes write_inode and write_file touch.  An area of the drive has *)
(* the bytes from its start to the one before its end.                     *)
(***************************************************************************)
EXTENDS Integers

sizeof_super_block == 70
sizeof_inode       == 121
BlockSize          == 256
reserved_blocks    == 1
InodeBlocks        == 10   \* the length of inode.data_blocks
overhead           == sizeof_super_block + 10

KB(n) == n * 1024

-----------------------------------------------------------------------------
(* Variant: the blocks that hold inodes are counted as data blocks too. *)
createDriveImage_CountsInodes(size) ==
  LET blocks == (size - overhead) \div BlockSize
      inodes == blocks \div 30
      start == overhead + reserved_blocks * BlockSize
  IN  [total_blocks |-> blocks, inodes_start |-> start,
       total_inodes |-> inodes,
       data_block_start |-> start + inodes * BlockSize,
       total_data_blocks |-> blocks]

(* The super block of a drive of at least the overhead. *)
createDriveImage(size) ==
  LET blocks == (size - overhead) \div BlockSize
      inodes == blocks \div 30
      start == overhead + reserved_blocks * BlockSize
  IN  [total_blocks |-> blocks, inodes_start |-> start,
       total_inodes |-> inodes,
       data_block_start |-> start + inodes * BlockSize,
       total_data_blocks |-> blocks - inodes]

TooSmall(size) == createDriveImage(size).total_inodes < 10

(* In KB, as the message for a drive that is too small says. *)
MinimumDriveSize == (30 * 10 * BlockSize + overhead) \div 1024 + 1

(* The area write_inode writes; the root calls itself -1. *)
InodeArea(sb, self) ==
  LET start == sb.inodes_start + self * BlockSize
  IN  [start |-> start, end |-> start + sizeof_inode]

(* The area write_file writes for one block. *)
DataArea(sb, b) ==
  LET start == sb.data_block_start + b * BlockSize
  IN  [start |-> start, end |-> start + BlockSize]

SuperBlockArea == [start |-> 0, end |-> sizeof_super_block]

-----------------------------------------------------------------------------
(* Properties of a drive that createDriveImage does not refuse *)

Apart(a, b) == a.end =< b.start \/ b.end =< a.start

Self(sb)  == -1..(sb.total_inodes - 1)
Block(sb) == 0..(sb.total_data_blocks - 1)

(* No write of an inode or a block reaches another inode, another block or *)
(* the super block; in particular the root inode, which write_inode writes *)
(* in front of the table, lands in the reserved block.                     *)
AreasApart(size) ==
  LET sb == createDriveImage(size)
  IN  /\ \A i \in Self(sb) : Apart(InodeArea(sb, i), SuperBlockArea)
      /\ \A i, j \in Self(sb) : i # j => Apart(InodeArea(sb, i), InodeArea(sb, j))
      /\ \A i \in Self(sb), b \in Block(sb) : Apart(InodeArea(sb, i), DataArea(sb, b))
      /\ \A b, c \in Block(sb) : b # c => Apart(DataArea(sb, b), DataArea(sb, c))

(* The last block ends at most one block beyond the size of the drive: the *)
(* reserved block is not subtracted from the total.                        *)
EndsNearSize(size) ==
  LET sb == createDriveImage(size)
  IN  \A b \in Block(sb) : DataArea(sb, b).end =< size + BlockSize

(* The blocks outnumber those that all inodes together can hold, so that   *)
(* the search of write_file for a free block finds one.                    *)
NeverFull(size) ==
  LET sb == createDriveImage(size)
  IN  sb.total_data_blocks > InodeBlocks * sb.total_inodes

(* The minimum size that the program names is not refused.                 *)
MinimumSuffices(size) == size >= KB(MinimumDriveSize) => ~TooSmall(size)
=============================================================================
