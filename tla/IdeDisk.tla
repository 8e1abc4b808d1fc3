------------------------------ MODULE IdeDisk ------------------------------
(***************************************************************************)
(* The IDE disk that NEMU emulates, nemu/src/device/dev/ide.c, seen from   *)
(* its ports.  A sector is Words words long (128 in the code); the image   *)
(* file is a sequence of words with ONE position, moved by the commands    *)
(* and by every transfer.  When an assertion of handler_ide fails the      *)
(* emulator aborts: the operation has no next state.                       *)
(***************************************************************************)
EXTENDS I8259

CONSTANTS
  NrSectors,        \* sectors of the image
  Words,            \* 32-bit words per sector, 512 / 4 in the code
  Data,             \* values of a word
  Images,           \* what the image file may hold at the start
  ImageWritable     \* whether fopen's mode lets fwrite store; "rb" does not

ASSUME GeometryIsPos ==
  /\ NrSectors \in Nat \ {0}
  /\ Words \in Nat \ {0}
  /\ ImageWritable \in BOOLEAN
  /\ 0 \in Data

VARIABLES
  image,        \* the content of the file behind disk_fp
  fpos,         \* position of disk_fp, in words
  status,       \* port 7 as a read of it returns
  sector_port,  \* ports 3 to 6
  byte_cnt,     \* words transferred since the last command
  ide_write     \* direction of the last command

diskVars == <<image, fpos, status, sector_port, byte_cnt, ide_write>>

SectorNos == 0 .. NrSectors - 1
Offsets   == 0 .. NrSectors * Words - 1      \* byte offsets of the code, in words
SectorOf(off) == off \div Words              \* offset >> 9
WordOf(off)   == off % Words                 \* offset & 511
OffsetOf(sector, word) == sector * Words + word

READY == "0x40"
BUSY  == "0x30"       \* the write command itself, left in the port

ASSUME ImagesAreImages == Images \subseteq [Offsets -> Data]

DiskTypeOK ==
  /\ image \in [Offsets -> Data]
  /\ fpos \in 0 .. NrSectors * Words
  /\ status \in {READY, BUSY}
  /\ sector_port \in SectorNos
  /\ byte_cnt \in 0 .. Words
  /\ ide_write \in BOOLEAN

init_ide ==
  /\ image \in Images
  /\ fpos = 0
  /\ status = READY
  /\ sector_port = 0
  /\ byte_cnt = 0
  /\ ide_write = FALSE

\* Ports 3 to 6 are latches.
OutSector(sector) ==
  /\ sector_port' = sector
  /\ UNCHANGED <<image, fpos, status, byte_cnt, ide_write>>

\* Command 0x20: complete and interrupting before the `out' ends.
OutReadCommand ==
  /\ fpos' = OffsetOf(sector_port, 0)
  /\ byte_cnt' = 0
  /\ ide_write' = FALSE
  /\ status' = READY
  /\ i8259_raise_intr(IDE_IRQ)
  /\ UNCHANGED <<image, sector_port>>

\* Faulty variant: the count of the transfer before is kept.
OutWriteCommand_no_reset ==
  /\ fpos' = OffsetOf(sector_port, 0)
  /\ ide_write' = TRUE
  /\ status' = BUSY
  /\ UNCHANGED <<image, sector_port, byte_cnt, picVars>>

\* Command 0x30: port 7 keeps the command until the data have come.
OutWriteCommand ==
  /\ fpos' = OffsetOf(sector_port, 0)
  /\ byte_cnt' = 0
  /\ ide_write' = TRUE
  /\ status' = BUSY
  /\ UNCHANGED <<image, sector_port, picVars>>

\* Faulty variant: the transfer completes one word too late.
CountWord_late ==
  /\ byte_cnt' = byte_cnt + 1
  /\ status' = IF byte_cnt = Words THEN READY ELSE status

\* What one transferred word does to the count, and port 7 at the last one.
CountWord ==
  /\ byte_cnt' = byte_cnt + 1
  /\ status' = IF byte_cnt + 1 = Words THEN READY ELSE status

\* fwrite: on a file opened for reading it stores nothing and moves nothing.
OutLong(word) ==
  /\ byte_cnt <= Words
  /\ ide_write
  /\ IF ImageWritable
       THEN image' = [image EXCEPT ![fpos] = word] /\ fpos' = fpos + 1
       ELSE UNCHANGED <<image, fpos>>
  /\ CountWord
  /\ UNCHANGED <<sector_port, ide_write>>

\* fread: the word that `in' returns is image[fpos].
InLong ==
  /\ byte_cnt <= Words
  /\ ~ide_write
  /\ fpos' = fpos + 1
  /\ CountWord
  /\ UNCHANGED <<image, sector_port, ide_write>>
=============================================================================
