----------------------------- MODULE OtaUpdate -----------------------------
(***************************************************************************)
(* The sketch update of the loader: a running sketch downloads an image to *)
(* a staging file and marks it ready (loader/ota/ota_sketch.c); at the next *)
(* boot the loader copies the file into the sketch partition               *)
(* (loader/ota/ota_sketch_check.c) and starts what the partition holds     *)
(* (loader/main.c).  Flash and file system calls may fail and the power    *)
(* may go at any point; what is torn by that is modelled byte by byte.     *)
(*                                                                         *)
(* A byte of flash holds <<m, i>> (byte i of image m) or Blank, the erased *)
(* value 0xFF, which is also what the code pads with.  Every adverse event *)
(* is named by a fault kind; Fault selects the kinds a run allows and      *)
(* MaxFaults bounds how many happen.                                       *)
(***************************************************************************)
EXTENDS Naturals

CONSTANTS
  Image,       \* sketch images that can be offered or installed
  NoImage,     \* not an image
  NoFile,      \* the file does not exist
  Blank,       \* an erased byte
  ImageLen,    \* ImageLen[m]: the len field of m's sketch header
  FileLen,     \* FileLen[m]: bytes of the file the server holds for m
  Valid,       \* images whose header has the right version and magic
  Linked,      \* images whose header has SKETCH_FLAG_LINKED
  PartSize,    \* bytes of the user_sketch partition
  HeaderLen,   \* SKETCH_HEADER_LEN
  WriteBlock,  \* flash_area_align: the write block size
  ChunkSize,   \* CONFIG_OTA_TRANSCRIPTION_CHUNK_SIZE
  Fault,       \* kinds of adverse events that may happen
  MaxFaults    \* at most this many of them

FaultKind == {"power", "area", "stat", "open", "header", "erase", "seek",
              "read", "partial", "write", "unlink", "partition", "load",
              "close", "rename"}

ASSUME SizeAssumption ==
  /\ PartSize \in Nat \ {0}
  /\ HeaderLen \in Nat \ {0}
  /\ WriteBlock \in Nat \ {0}
  /\ ChunkSize \in Nat \ {0}
  /\ ChunkSize % WriteBlock = 0
  /\ PartSize % WriteBlock = 0
  /\ MaxFaults \in Nat

\* The sketch tool writes a header in front of every image it accepts, and
\* sets len to the length of the whole file, header included.
ASSUME ImageAssumption ==
  /\ NoImage \notin Image
  /\ NoFile \notin [img : Image, size : Nat]
  /\ Blank \notin Image \X Nat
  /\ ImageLen \in [Image -> Nat]
  /\ FileLen \in [Image -> Nat]
  /\ Valid \subseteq Image
  /\ Linked \subseteq Image
  /\ \A m \in Valid : HeaderLen <= ImageLen[m]

ASSUME FaultAssumption == Fault \subseteq FaultKind

VARIABLES
  part,     \* the sketch partition
  temp,     \* the staging file <path>.TEMP
  update,   \* the file the loader looks for
  pc,       \* what the CPU executes next
  hdr,      \* image named by the header last read
  offset,   \* perform_ota: bytes already in the partition
  fpos,     \* position of the open update file
  delete,   \* try_ota_update: remove the update file on the way out
  faults,   \* how many adverse events so far
  seen      \* their kinds

vars == <<part, temp, update, pc, hdr, offset, fpos, delete, faults, seen>>

Addr == 0 .. PartSize - 1
Cell == {Blank} \union (Image \X Nat)
File == {f \in [img : Image, size : Nat] : f.size <= FileLen[f.img]}

LoaderPc == {"loader", "stat", "open", "validate", "erase", "seek", "copy",
             "cleanup", "header", "start"}
SketchPc == {"sketch", "download", "ready", "reboot"}
StoppedPc == {"halted", "truncated"}

Least(a, b) == IF a <= b THEN a ELSE b
RoundUp(n) == IF (n % WriteBlock) = 0 THEN n ELSE n + (WriteBlock - (n % WriteBlock))

\* A fault of kind k happens in this step, or none does.
Adverse(k) == /\ k \in Fault
              /\ faults < MaxFaults
              /\ faults' = faults + 1
              /\ seen' = seen \union {k}
Works == UNCHANGED <<faults, seen>>

-----------------------------------------------------------------------------
(* What the flash and the files hold *)

Holds(p, m, n) == \A i \in Addr : i < n => p[i] = <<m, i>>
Intact(m) == ImageLen[m] <= PartSize /\ Holds(part, m, ImageLen[m])
HeaderOf(p) == {m \in Valid : Holds(p, m, HeaderLen)}
AllBlank == [i \in Addr |-> Blank]

\* The checks of try_ota_update and verify_sketch_header on an update file.
Installable(f) ==
  /\ HeaderLen <= f.size
  /\ f.img \in Valid
  /\ ImageLen[f.img] <= PartSize
  /\ ImageLen[f.img] <= f.size

Bootable == {m \in Valid : ImageLen[m] <= PartSize}

\* Flash after n file bytes from fpos were programmed at offset, padded with
\* 0xFF to w bytes, the first k of which reached the flash.
Programmed(n, w, k) ==
  [i \in Addr |->
     IF offset <= i /\ i < offset + Least(k, n) THEN <<hdr, fpos + (i - offset)>>
     ELSE IF offset + n <= i /\ i < offset + Least(k, w) THEN Blank
     ELSE part[i]]

\* Flash after the erase went through the first k bytes.
Erased(k) == [i \in Addr |-> IF i < k THEN Blank ELSE part[i]]

\* flash_area_write refuses a range that is unaligned or outside the area.
WriteAccepted(w) ==
  /\ offset % WriteBlock = 0
  /\ w % WriteBlock = 0
  /\ offset + w <= PartSize

Unread == Least(Least(ImageLen[hdr] - offset, ChunkSize), update.size - fpos)
-----------------------------------------------------------------------------
(* The running sketch: libraries/OTA and the loader's ota_sketch.c *)

Boot == /\ pc' = "loader"
        /\ hdr' = NoImage
        /\ offset' = 0
        /\ fpos' = 0
        /\ delete' = FALSE

Locals == <<hdr, offset, fpos, delete>>

\* fs_unlink and fs_open of the staging file.
BeginDownload(m) ==
  /\ pc = "sketch"
  /\ temp' = [img |-> m, size |-> 0]
  /\ pc' = "download"
  /\ Works
  /\ UNCHANGED <<part, update, Locals>>

\* Mutant: the last read is not clamped to the content length.
DownloadMore_Unclamped ==
  /\ pc = "download"
  /\ \E s \in (temp.size + 1) .. (FileLen[temp.img] + 1) : temp' = [temp EXCEPT !.size = s]
  /\ Works
  /\ UNCHANGED <<part, update, pc, Locals>>

DownloadMore ==
  /\ pc = "download"
  /\ \E s \in (temp.size + 1) .. FileLen[temp.img] : temp' = [temp EXCEPT !.size = s]
  /\ Works
  /\ UNCHANGED <<part, update, pc, Locals>>

\* The connection or fs_write failed: the staging file is removed.
AbortDownload ==
  /\ pc = "download"
  /\ temp' = NoFile
  /\ pc' = "sketch"
  /\ Works
  /\ UNCHANGED <<part, update, Locals>>

\* All bytes written, then fs_close, whose result nobody looks at: when it
\* fails the tail of the file may be lost.
FinishDownload ==
  /\ pc = "download"
  /\ temp.size = FileLen[temp.img]
  /\ pc' = "ready"
  /\ \/ Works /\ UNCHANGED temp
     \/ /\ Adverse("close")
        /\ \E s \in 0 .. temp.size : temp' = [temp EXCEPT !.size = s]
  /\ UNCHANGED <<part, update, Locals>>

\* ota_sketch_ready: fs_stat, then fs_rename over the update path.
MarkReady ==
  /\ pc = "ready"
  /\ \/ /\ Works
        /\ update' = temp
        /\ temp' = NoFile
        /\ pc' = "reboot"
     \/ /\ Adverse("rename")
        /\ pc' = "sketch"
        /\ UNCHANGED <<temp, update>>
  /\ UNCHANGED <<part, Locals>>

\* ota_sketch_start.
StartOta ==
  /\ pc = "reboot"
  /\ Boot
  /\ Works
  /\ UNCHANGED <<part, temp, update>>

SketchStep == \/ \E m \in Image : BeginDownload(m)
              \/ DownloadMore
              \/ AbortDownload
              \/ FinishDownload
              \/ MarkReady
              \/ StartOta

-----------------------------------------------------------------------------
(* The loader: try_ota_update *)

OpenArea ==
  /\ pc = "loader"
  /\ \/ Works /\ pc' = "stat"
     \/ Adverse("area") /\ pc' = "halted"
  /\ UNCHANGED <<part, temp, update, Locals>>

StatUpdate ==
  /\ pc = "stat"
  /\ \/ Works /\ update # NoFile /\ pc' = "open"
     \/ Works /\ update = NoFile /\ pc' = "header"
     \/ Adverse("stat") /\ pc' = "header"
  /\ UNCHANGED <<part, temp, update, Locals>>

OpenUpdate ==
  /\ pc = "open"
  /\ \/ Works /\ pc' = "validate" /\ UNCHANGED delete
     \/ Adverse("open") /\ pc' = "cleanup" /\ delete' = TRUE
  /\ UNCHANGED <<part, temp, update, hdr, offset, fpos>>

\* The header is read and checked before anything is erased.
AcceptUpdate ==
  /\ pc = "validate"
  /\ Installable(update)
  /\ hdr' = update.img
  /\ fpos' = HeaderLen
  /\ offset' = 0
  /\ pc' = "erase"
  /\ Works
  /\ UNCHANGED <<part, temp, update, delete>>

RejectUpdate ==
  /\ pc = "validate"
  /\ \/ Works /\ ~Installable(update)
     \/ Adverse("header")
  /\ delete' = TRUE
  /\ pc' = "cleanup"
  /\ UNCHANGED <<part, temp, update, hdr, offset, fpos>>

EraseArea ==
  /\ pc = "erase"
  /\ \/ Works /\ part' = AllBlank /\ pc' = "seek"
     \/ /\ Adverse("erase")
        /\ \E k \in Addr : part' = Erased(k)
        /\ pc' = "cleanup"
  /\ UNCHANGED <<temp, update, Locals>>

\* Mutant: no seek, the copy goes on behind the header that was read.
SeekStart_NoRewind ==
  /\ pc = "seek"
  /\ Works
  /\ pc' = "copy"
  /\ UNCHANGED <<part, temp, update, Locals>>

\* Mutant: a failed seek is treated like a failure before the erase.
SeekStart_Deletes ==
  /\ pc = "seek"
  /\ \/ Works /\ fpos' = 0 /\ pc' = "copy" /\ UNCHANGED delete
     \/ Adverse("seek") /\ pc' = "cleanup" /\ delete' = TRUE /\ UNCHANGED fpos
  /\ UNCHANGED <<part, temp, update, hdr, offset>>

SeekStart ==
  /\ pc = "seek"
  /\ \/ Works /\ fpos' = 0 /\ pc' = "copy"
     \/ Adverse("seek") /\ pc' = "cleanup" /\ UNCHANGED fpos
  /\ UNCHANGED <<part, temp, update, hdr, offset, delete>>

\* fs_read returns n bytes: what was asked for, or fewer in a partial read.
ReadReturns(n) == \/ Works /\ n = Unread
                  \/ n < Unread /\ Adverse("partial")

CopyChunk ==
  /\ pc = "copy"
  /\ offset < ImageLen[hdr]
  /\ \E n \in 1 .. Unread :
       /\ ReadReturns(n)
       /\ WriteAccepted(RoundUp(n))
       /\ part' = Programmed(n, RoundUp(n), RoundUp(n))
       /\ offset' = offset + n
       /\ fpos' = fpos + n
  /\ UNCHANGED <<temp, update, pc, hdr, delete>>

\* Mutant: a failed write is treated like a failure before the erase.
WriteFails_Deletes ==
  /\ pc = "copy"
  /\ offset < ImageLen[hdr]
  /\ Adverse("write")
  /\ \E k \in 0 .. RoundUp(Unread) : part' = Programmed(Unread, RoundUp(Unread), k)
  /\ delete' = TRUE
  /\ pc' = "cleanup"
  /\ UNCHANGED <<temp, update, hdr, offset, fpos>>

\* flash_area_write returns an error: the range was refused, or the write
\* stopped after k bytes.
WriteFails ==
  /\ pc = "copy"
  /\ offset < ImageLen[hdr]
  /\ \E n \in 1 .. Unread :
       \/ /\ ReadReturns(n)
          /\ ~WriteAccepted(RoundUp(n))
          /\ UNCHANGED part
       \/ /\ Adverse("write")
          /\ n = Unread
          /\ \E k \in 0 .. RoundUp(n) : part' = Programmed(n, RoundUp(n), k)
  /\ pc' = "cleanup"
  /\ UNCHANGED <<temp, update, Locals>>

\* fs_read returns 0 or an error with bytes still missing.  The log says
\* "retry on next boot", but rc is 0 and the caller takes the update as done.
ShortRead ==
  /\ pc = "copy"
  /\ offset < ImageLen[hdr]
  /\ \/ Works /\ Unread = 0
     \/ Adverse("read")
  /\ delete' = TRUE
  /\ pc' = "cleanup"
  /\ UNCHANGED <<part, temp, update, hdr, offset, fpos>>

\* Mutant: the loop stops when less than a chunk is missing.
CopyDone_Early ==
  /\ pc = "copy"
  /\ offset + ChunkSize > ImageLen[hdr]
  /\ delete' = TRUE
  /\ pc' = "cleanup"
  /\ Works
  /\ UNCHANGED <<part, temp, update, hdr, offset, fpos>>

CopyDone ==
  /\ pc = "copy"
  /\ offset >= ImageLen[hdr]
  /\ delete' = TRUE
  /\ pc' = "cleanup"
  /\ Works
  /\ UNCHANGED <<part, temp, update, hdr, offset, fpos>>

\* Mutant: the file is removed whatever delete says.
CleanUp_Always ==
  /\ pc = "cleanup"
  /\ pc' = "header"
  /\ \/ Works /\ update' = NoFile
     \/ Adverse("unlink") /\ UNCHANGED update
  /\ UNCHANGED <<part, temp, Locals>>

\* The exit path: fs_close (no effect on a file opened to read), fs_unlink.
\* Whatever try_ota_update returns, the loader goes on.
CleanUp ==
  /\ pc = "cleanup"
  /\ pc' = "header"
  /\ \/ Works /\ ~delete /\ UNCHANGED update
     \/ Works /\ delete /\ update' = NoFile
     \/ delete /\ Adverse("unlink") /\ UNCHANGED update
  /\ UNCHANGED <<part, temp, Locals>>

-----------------------------------------------------------------------------
(* The loader: reading the partition and starting the sketch *)

ReadHeader ==
  /\ pc = "header"
  /\ \/ /\ Works
        /\ hdr' \in HeaderOf(part)
        /\ pc' = "start"
     \/ /\ Works
        /\ HeaderOf(part) = {}
        /\ hdr' = NoImage
        /\ pc' = "halted"
     \/ /\ Adverse("partition")
        /\ UNCHANGED hdr
        /\ pc' = "halted"
  /\ UNCHANGED <<part, temp, update, offset, fpos, delete>>

\* A linked sketch is jumped to whatever follows its header.  llext_load may
\* refuse a torn image, and may fail on a whole one for want of memory.
StartSketch ==
  /\ pc = "start"
  /\ \/ Works /\ Intact(hdr) /\ pc' = "sketch"
     \/ Works /\ ~Intact(hdr) /\ pc' = "truncated"
     \/ Works /\ ~Intact(hdr) /\ hdr \notin Linked /\ pc' = "halted"
     \/ Adverse("load") /\ hdr \notin Linked /\ pc' = "halted"
  /\ UNCHANGED <<part, temp, update, Locals>>

LoaderStep == \/ OpenArea     \/ StatUpdate   \/ OpenUpdate
              \/ AcceptUpdate \/ RejectUpdate \/ EraseArea
              \/ SeekStart    \/ CopyChunk    \/ WriteFails
              \/ ShortRead    \/ CopyDone     \/ CleanUp
              \/ ReadHeader   \/ StartSketch
-----------------------------------------------------------------------------
(* The world around the board *)

\* Power is lost between two steps, in the middle of the erase, or in the
\* middle of programming a chunk.
PowerCut ==
  /\ Adverse("power")
  /\ Boot
  /\ \/ UNCHANGED part
     \/ /\ pc = "erase"
        /\ \E k \in Addr : part' = Erased(k)
     \/ /\ pc = "copy"
        /\ \E n \in 1 .. Unread, k \in Addr :
             /\ n = Unread
             /\ WriteAccepted(RoundUp(n))
             /\ part' = Programmed(n, RoundUp(n), k)
  /\ UNCHANGED <<temp, update>>

\* The user presses reset, or runs the shell's "sketch" command on a loader
\* that gave up: either enters loader() again.
Reset ==
  /\ pc \in StoppedPc \union {"sketch"}
  /\ Boot
  /\ Works
  /\ UNCHANGED <<part, temp, update>>

-----------------------------------------------------------------------------
Init ==
  /\ \E m \in Bootable : part = [i \in Addr |-> IF i < ImageLen[m] THEN <<m, i>> ELSE Blank]
  /\ temp = NoFile
  /\ update = NoFile
  /\ pc = "loader"
  /\ hdr = NoImage
  /\ offset = 0
  /\ fpos = 0
  /\ delete = FALSE
  /\ faults = 0
  /\ seen = {}

Next == LoaderStep \/ SketchStep \/ PowerCut \/ Reset

Spec == Init /\ [][Next]_vars

\* The loader runs to its end once it runs, and somebody resets a board that
\* stopped; nothing obliges a sketch to download or the user to reset it.
Fairness == /\ WF_vars(LoaderStep)
            /\ WF_vars(pc \in StoppedPc /\ Reset)
            /\ WF_vars(StartOta)

FairSpec == Spec /\ Fairness

-----------------------------------------------------------------------------
(* Properties *)

\* Every variable stays within the values the code can give it.
TypeOK ==
  /\ part \in [Addr -> Cell]
  /\ temp \in File \union {NoFile}
  /\ update \in File \union {NoFile}
  /\ pc \in LoaderPc \union SketchPc \union StoppedPc
  /\ hdr \in Image \union {NoImage}
  /\ offset \in Nat
  /\ fpos \in Nat
  /\ delete \in BOOLEAN
  /\ faults \in 0 .. MaxFaults
  /\ seen \in SUBSET FaultKind

Whole == \E m \in Bootable : Intact(m)
Pending == update # NoFile /\ Installable(update)

\* Calls on the update file that failed although the file is there: each makes
\* try_ota_update delete it (see ShortRead, OpenUpdate, RejectUpdate).
UpdateUnreadable == seen \intersect {"open", "header", "read"} # {}

\* What stops an update between the erase and the last byte, or hides it.
UpdateStopped == seen \intersect {"stat", "erase", "seek", "partial", "write"} # {}

\* ota_sketch_check.h: when the partition is not a whole sketch any more, the
\* update file is still there, and acceptable, so that the next boot can
\* retry; there is no other way back.
RecoverableIfReadable == UpdateUnreadable \/ Whole \/ Pending

\* The same as the header file says it, for any failure.
Recoverable == Whole \/ Pending

\* Power cuts, even in the middle of the erase or of a write, never make the
\* loader jump into a partition torn behind an intact header; it takes a
\* failing flash or file system call.
StartsWhole == pc = "truncated" => UpdateStopped \/ UpdateUnreadable

\* An update file disappears only when its image is whole in the partition or
\* when the loader refuses its content.
UpdateConsumed ==
  [][ pc = "cleanup" /\ update # NoFile /\ update' = NoFile
        => UpdateUnreadable \/ Intact(update.img) \/ ~Installable(update) ]_vars

\* An acceptable update that a boot finds is eventually in the partition,
\* however often the power goes on the way.
UpdateInstalled ==
  \A m \in Image : (pc = "loader" /\ Pending /\ update.img = m) ~> Intact(m)

\* A partition torn by failing flash calls or by power cuts does not stay so:
\* it eventually holds the update that tore it.
TornRepaired ==
  \A m \in Image : (~Whole /\ Pending /\ update.img = m) ~> Intact(m) \/ UpdateUnreadable

\* ota_sketch_check.h: "On failure before the erase, UPDATE.BIN is removed
\* and the existing sketch boots": what is there to boot is a whole sketch.
ExistingSketchBoots == pc = "cleanup" /\ hdr = NoImage => Whole

\* Why the update recovers, as an inductive invariant: what the loader has
\* established at each of its steps.
UpdateInv ==
  /\ RecoverableIfReadable
  \* The file being installed is the one whose header was checked.
  /\ pc \in {"erase", "seek", "copy"} => Pending /\ hdr = update.img
  /\ pc \in {"erase", "seek"} => offset = 0
  \* What is copied so far is the image, from its first byte.
  /\ pc = "copy" => /\ fpos = offset
                    /\ offset <= ImageLen[hdr]
                    /\ Holds(part, hdr, offset)
  \* Only the way out of try_ota_update decides to delete the file.
  /\ pc \in LoaderPc \ {"cleanup", "header", "start"} => ~delete
  \* The file is deleted only when it is of no use any more.
  /\ pc = "cleanup" /\ delete =>
       UpdateUnreadable \/ ~Installable(update) \/ Intact(update.img)
  \* A sketch that runs, and may replace the update, is whole.
  /\ pc \in SketchPc => Whole
  /\ pc = "start" => hdr \in Valid

-----------------------------------------------------------------------------
(* The update, as an atomic replacement of the sketch *)

PartImage == IF Whole THEN CHOOSE m \in Bootable : Intact(m)
             ELSE IF update # NoFile THEN update.img ELSE NoImage

Atomic == INSTANCE AtomicSketch WITH
            Acceptable <- {m \in Bootable : /\ ImageLen[m] <= FileLen[m]
                                            /\ HeaderLen <= FileLen[m]},
            installed <- PartImage,
            offered <- IF update = NoFile THEN NoImage ELSE update.img,
            running <- IF pc \in SketchPc \union {"truncated"} THEN PartImage ELSE NoImage

\* When the power is all that fails, and calls before the update and after the
\* copy, a user cannot tell the update from an atomic replacement of one whole
\* sketch by another.  An update file that cannot be removed is installed again
\* at every boot, and is as good as one that was removed.
AtomicSpec == Atomic!Spec
=============================================================================
