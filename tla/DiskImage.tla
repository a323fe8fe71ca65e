----------------------------- MODULE DiskImage -----------------------------
(***************************************************************************)
(* The two formats of floppy images (diskraw.c, diskimd.c) behind the      *)
(* functions of struct disk_image, for images of one geometry.             *)
(*                                                                         *)
(* A raw file is its words in LBA order.  An ImageDisk file has the tracks *)
(* in order, each with the map of its sectors' numbers in the order their  *)
(* records come, and a record is the words it stands for, which all have   *)
(* one byte's value if it is compressed.  A write changes what is in a     *)
(* record, never its kind or its length, so that its place in the sequence *)
(* stands for its offset.  Files are well formed: init_imd turns away      *)
(* other data modes, sector sizes and records.                             *)
(***************************************************************************)
EXTENDS Integers, Sequences

CONSTANTS SecWords,           \* words in a sector
          Tracks, Heads, Spt  \* the geometry

ASSUME DiskImageAssumption ==
  /\ SecWords \in Nat \ {0} /\ Tracks \in Nat \ {0}
  /\ Heads \in Nat \ {0} /\ Spt \in Nat \ {0}

Sectors == 0..(Tracks * Heads * Spt - 1)

Lba(t, h, s) == (t * Heads * Spt) + (h * Spt) + s - 1

\* Whether all bytes are as the first, fill.
Uniform(words) ==
  LET fill == words[1] \div 256
  IN \A i \in DOMAIN words : words[i] = 256 * fill + fill

\* Mutant of SectorMap: records are taken for sorted, as those of raw images.
SectorMapSorted(file) == [lba \in Sectors |-> lba + 1]

\* init_imd: the offset of each sector's record, track by track in file order.
SectorMap(file) ==
  [lba \in Sectors |->
     CHOOSE r \in DOMAIN file.records :
       LET track == (r - 1) \div Spt
       IN lba = track * Spt + file.maps[track + 1][((r - 1) % Spt) + 1] - 1]

\* read_sector_raw, short at the end of the file, and read_sector_imd through
\* the map that was made when the disc was loaded.
ReadRaw(file, lba) ==
  SubSeq(file.words, lba * SecWords + 1,
         IF (lba + 1) * SecWords > Len(file.words) THEN Len(file.words) ELSE (lba + 1) * SecWords)
ReadImd(file, map, lba) == file.records[map[lba]].words

ReadSector(file, map, lba) ==
  IF file.format = "IMD" THEN ReadImd(file, map, lba) ELSE ReadRaw(file, lba)

\* write_sector_raw.
WriteRaw(file, lba, data) ==
  [file EXCEPT !.words = SubSeq(@, 1, lba * SecWords) \o data
                           \o SubSeq(@, (lba + 1) * SecWords + 1, Len(@))]

\* write_sector_imd, which drops what a compressed record cannot hold.
WriteImd(file, map, lba, data) ==
  LET r == map[lba]
  IN IF file.records[r].compressed /\ ~Uniform(data) THEN file
     ELSE [file EXCEPT !.records[r].words = data]

WriteSector(file, map, lba, data) ==
  IF file.format = "IMD" THEN WriteImd(file, map, lba, data) ELSE WriteRaw(file, lba, data)

-----------------------------------------------------------------------------
(* What a file is to those who know the formats and not this code.          *)

\* An ImageDisk file has a sector's record in the sector's track, in the place
\* where the map of the track has its number.
Record(file, lba) ==
  LET track == lba \div Spt
  IN track * Spt + CHOOSE k \in 1..Spt : file.maps[track + 1][k] = (lba % Spt) + 1

Contents(file) ==
  IF file.format = "raw" THEN file.words
  ELSE [i \in 1..(Tracks * Heads * Spt * SecWords) |->
          file.records[Record(file, (i - 1) \div SecWords)].words[((i - 1) % SecWords) + 1]]

\* Whether data can be stored in a sector without changing the file's layout.
HasRoom(file, lba, data) ==
  file.format = "IMD" /\ file.records[Record(file, lba)].compressed =>
    \A i \in DOMAIN data : data[i] = data[1] /\ data[i] % 257 = 0
=============================================================================
