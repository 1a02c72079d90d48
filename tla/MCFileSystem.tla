---------------------------- MODULE MCFileSystem ----------------------------
(***************************************************************************)
(* A drive of four inodes, the root among them, with blocks of two units   *)
(* and two blocks for an inode: texts of less than a block, of exactly one *)
(* and of two, directories of up to two entries.                           *)
(***************************************************************************)
EXTENDS FileSystem

CONSTANTS x, y, letter1, letter2

MCContent == {<<letter1>>, <<letter1, letter2>>, <<letter2, letter1, letter1>>}
TwoTexts  == {<<letter1>>, <<letter2, letter1, letter1>>}

-----------------------------------------------------------------------------
(* Sizes around the smallest one that is accepted, whole blocks and not. *)
Layout == INSTANCE DriveLayout

SmallSizes == 76800..76900
DriveSizes == {76880, 76899, 76900, 77135, 77136}

(* On a drive that createDriveImage accepts no write reaches what belongs  *)
(* to another inode, block or the super block, the last block ends at most *)
(* a block beyond the size, and a free block is always found; the minimum  *)
(* size that it names is accepted.                                         *)
DriveIsSound ==
  Init =>
    /\ \A size \in SmallSizes \cup DriveSizes : Layout!MinimumSuffices(size)
    /\ \A size \in {s \in DriveSizes : ~Layout!TooSmall(s)} :
         Layout!NeverFull(size) /\ Layout!EndsNearSize(size) /\ Layout!AreasApart(size)
=============================================================================
