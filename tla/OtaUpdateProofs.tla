--------------------------- MODULE OtaUpdateProofs ---------------------------
(***************************************************************************)
(* Proofs about the sketch update, for every image set, every layout and   *)
(* every choice and number of faults: types, what the loader knows at each *)
(* step, recovery, which sketches start, and that the update is an atomic  *)
(* replacement of the sketch when the power is what fails.                 *)
(***************************************************************************)
EXTENDS OtaUpdate, Integers, TLAPS

USE SizeAssumption, ImageAssumption, FaultAssumption

\* RoundUp pads a chunk, it never shortens it.
LEMMA RoundUpGrows ==
  ASSUME NEW n \in Nat
  PROVE  RoundUp(n) \in Nat /\ RoundUp(n) >= n
<1>1. (n % WriteBlock) \in Nat /\ (n % WriteBlock) < WriteBlock
  BY SMT
<1>2. QED
  BY <1>1 DEF RoundUp

\* What programming a chunk leaves in the flash is still flash.
LEMMA ProgrammedType ==
  ASSUME TypeOK, hdr \in Image, NEW n \in Nat, NEW w \in Nat, NEW k \in Nat
  PROVE  Programmed(n, w, k) \in [Addr -> Cell]
<1> SUFFICES ASSUME NEW i \in Addr
             PROVE  Programmed(n, w, k)[i] \in Cell
  BY DEF Programmed
<1>1. part[i] \in Cell /\ Blank \in Cell
  BY DEF TypeOK, Cell
<1>2. ASSUME offset <= i
      PROVE  <<hdr, fpos + (i - offset)>> \in Cell
  BY <1>2 DEF TypeOK, Cell, Addr
<1>3. QED
  BY <1>1, <1>2 DEF Programmed

\* An erase, whole or interrupted, leaves flash.
LEMMA ErasedType ==
  ASSUME TypeOK
  PROVE  /\ AllBlank \in [Addr -> Cell]
         /\ \A k \in Addr : Erased(k) \in [Addr -> Cell]
BY DEF TypeOK, AllBlank, Erased, Cell

-----------------------------------------------------------------------------
(* Types *)

\* Where the code dereferences the update file or the header it read, there
\* is one.
Present ==
  /\ pc \in {"open", "validate", "erase", "seek", "copy"} => update # NoFile
  /\ pc \in {"erase", "seek", "copy", "start"} => hdr \in Image
  /\ pc \in {"download", "ready"} => temp # NoFile

TypeInv == TypeOK /\ Present

LEMMA TypeInvStep == TypeInv /\ [Next]_vars => TypeInv'
<1> SUFFICES ASSUME TypeInv, [Next]_vars PROVE TypeInv'
  OBVIOUS
<1> USE DEF TypeInv, Present, TypeOK, LoaderPc, SketchPc, StoppedPc
<1>0. /\ Works => faults' \in 0 .. MaxFaults /\ seen' \in SUBSET FaultKind
      /\ \A k \in FaultKind :
           Adverse(k) => faults' \in 0 .. MaxFaults /\ seen' \in SUBSET FaultKind
  BY DEF Works, Adverse
<1>0a. NoImage \notin Image /\ \A f \in File : f # NoFile
  BY DEF File
<1>1. ASSUME NEW m \in Image, BeginDownload(m) PROVE TypeInv'
  BY <1>0, <1>0a, <1>1 DEF BeginDownload, Locals, File
<1>2. CASE DownloadMore
  <2>1. PICK s \in (temp.size + 1) .. FileLen[temp.img] : temp' = [temp EXCEPT !.size = s]
    BY <1>2 DEF DownloadMore
  <2>2. temp \in File /\ s \in Nat
    BY <1>2, <2>1 DEF DownloadMore, File
  <2>3. temp' \in File
    BY <2>1, <2>2 DEF File
  <2>4. QED
    BY <1>0, <1>0a, <1>2, <2>3 DEF DownloadMore, Locals
<1>3. CASE AbortDownload
  BY <1>0, <1>3 DEF AbortDownload, Locals
<1>4. CASE FinishDownload
  <2>1. temp \in File
    BY <1>4 DEF FinishDownload
  <2>2. temp' \in File
    <3>1. CASE UNCHANGED temp
      BY <2>1, <3>1
    <3>2. CASE \E s \in 0 .. temp.size : temp' = [temp EXCEPT !.size = s]
      BY <2>1, <3>2 DEF File
    <3>3. QED
      BY <1>4, <3>1, <3>2 DEF FinishDownload
  <2>3. faults' \in 0 .. MaxFaults /\ seen' \in SUBSET FaultKind
    BY <1>0, <1>4 DEF FinishDownload, FaultKind
  <2>4. QED
    BY <1>0a, <1>4, <2>2, <2>3 DEF FinishDownload, Locals
<1>5. CASE MarkReady
  BY <1>0, <1>5 DEF MarkReady, Locals, FaultKind
<1>6. CASE StartOta
  BY <1>0, <1>6 DEF StartOta, Boot
<1>7. CASE OpenArea
  BY <1>0, <1>7 DEF OpenArea, Locals, FaultKind
<1>8. CASE StatUpdate
  BY <1>0, <1>8 DEF StatUpdate, Locals, FaultKind
<1>9. CASE OpenUpdate
  BY <1>0, <1>9 DEF OpenUpdate, FaultKind
<1>10. CASE AcceptUpdate
  BY <1>0, <1>10 DEF AcceptUpdate, Installable
<1>11. CASE RejectUpdate
  BY <1>0, <1>11 DEF RejectUpdate, FaultKind
<1>12. CASE EraseArea
  BY <1>0, <1>12, ErasedType DEF EraseArea, Locals, FaultKind
<1>13. CASE SeekStart
  BY <1>0, <1>13 DEF SeekStart, FaultKind
<1>14. CASE CopyChunk
  <2>1. PICK n \in 1 .. Unread :
          /\ ReadReturns(n)
          /\ part' = Programmed(n, RoundUp(n), RoundUp(n))
          /\ offset' = offset + n
          /\ fpos' = fpos + n
    BY <1>14 DEF CopyChunk
  <2>2. n \in Nat /\ hdr \in Image
    BY <1>14 DEF CopyChunk
  <2>3. part' \in [Addr -> Cell]
    <3>1. RoundUp(n) \in Nat
      BY <2>2, RoundUpGrows
    <3>2. Programmed(n, RoundUp(n), RoundUp(n)) \in [Addr -> Cell]
      BY <2>2, <3>1, ProgrammedType
    <3>3. QED
      BY <2>1, <3>2
  <2>4. faults' \in 0 .. MaxFaults /\ seen' \in SUBSET FaultKind
    BY <1>0, <2>1 DEF ReadReturns, FaultKind
  <2>5. QED
    BY <1>14, <2>1, <2>2, <2>3, <2>4 DEF CopyChunk
<1>15. CASE WriteFails
  <2>1. PICK n \in 1 .. Unread :
          \/ ReadReturns(n) /\ UNCHANGED part
          \/ /\ Adverse("write")
             /\ \E k \in 0 .. RoundUp(n) : part' = Programmed(n, RoundUp(n), k)
    BY <1>15 DEF WriteFails
  <2>2. n \in Nat /\ hdr \in Image
    BY <1>15 DEF WriteFails
  <2>3. part' \in [Addr -> Cell]
    <3>1. CASE UNCHANGED part
      BY <3>1
    <3>2. ASSUME NEW k \in 0 .. RoundUp(n), part' = Programmed(n, RoundUp(n), k)
          PROVE  part' \in [Addr -> Cell]
      <4>1. RoundUp(n) \in Nat /\ k \in Nat
        BY <2>2, RoundUpGrows
      <4>2. Programmed(n, RoundUp(n), k) \in [Addr -> Cell]
        BY <2>2, <4>1, ProgrammedType
      <4>3. QED
        BY <3>2, <4>2
    <3>3. QED
      BY <2>1, <3>1, <3>2
  <2>4. faults' \in 0 .. MaxFaults /\ seen' \in SUBSET FaultKind
    BY <1>0, <2>1 DEF ReadReturns, FaultKind
  <2>5. QED
    BY <1>15, <2>3, <2>4 DEF WriteFails, Locals
<1>16. CASE ShortRead
  BY <1>0, <1>16 DEF ShortRead, FaultKind
<1>17. CASE CopyDone
  BY <1>0, <1>17 DEF CopyDone
<1>18. CASE CleanUp
  BY <1>0, <1>18 DEF CleanUp, Locals, FaultKind
<1>19. CASE ReadHeader
  BY <1>0, <1>19 DEF ReadHeader, HeaderOf, FaultKind
<1>20. CASE StartSketch
  BY <1>0, <1>20 DEF StartSketch, Locals, FaultKind
<1>21. CASE PowerCut
  <2>1. part' \in [Addr -> Cell]
    <3>1. CASE UNCHANGED part
      BY <3>1
    <3>2. CASE \E k \in Addr : part' = Erased(k)
      BY <3>2, ErasedType
    <3>3. CASE pc = "copy" /\ \E n \in 1 .. Unread, k \in Addr :
                                part' = Programmed(n, RoundUp(n), k)
      <4>1. PICK n \in 1 .. Unread, k \in Addr : part' = Programmed(n, RoundUp(n), k)
        BY <3>3
      <4>2. n \in Nat /\ k \in Nat /\ hdr \in Image
        BY <3>3 DEF Addr
      <4>3. RoundUp(n) \in Nat
        BY <4>2, RoundUpGrows
      <4>4. Programmed(n, RoundUp(n), k) \in [Addr -> Cell]
        BY <4>2, <4>3, ProgrammedType
      <4>5. QED
        BY <4>1, <4>4
    <3>4. QED
      BY <1>21, <3>1, <3>2, <3>3 DEF PowerCut
  <2>2. QED
    BY <1>0, <1>21, <2>1 DEF PowerCut, Boot, FaultKind
<1>22. CASE Reset
  BY <1>0, <1>22 DEF Reset, Boot
<1>23. CASE UNCHANGED vars
  BY <1>23 DEF vars
<1>24. QED
  BY <1>1, <1>2, <1>3, <1>4, <1>5, <1>6, <1>7, <1>8, <1>9, <1>10, <1>11, <1>12,
     <1>13, <1>14, <1>15, <1>16, <1>17, <1>18, <1>19, <1>20, <1>21, <1>22, <1>23
     DEF Next, LoaderStep, SketchStep

LEMMA InitTypeInv == Init => TypeInv
<1> SUFFICES ASSUME Init PROVE TypeInv
  OBVIOUS
<1>1. part \in [Addr -> Cell]
  BY DEF Init, Bootable, Cell, Addr
<1>2. TypeOK
  BY <1>1, 0 \in 0 .. MaxFaults DEF Init, TypeOK, LoaderPc
<1>3. Present
  BY DEF Init, Present
<1>4. QED
  BY <1>2, <1>3 DEF TypeInv

\* Every variable keeps its type, and the code never uses the update file or
\* the header before it has one.
THEOREM Typing == Spec => []TypeOK
<1>1. TypeInv => TypeOK
  BY DEF TypeInv
<1>2. QED
  BY <1>1, InitTypeInv, TypeInvStep, PTL DEF Spec

-----------------------------------------------------------------------------
(* Recovery *)

\* Steps that leave the flash alone leave whole sketches whole, those that
\* leave the update file alone leave it acceptable, and faults are not undone.
LEMMA Frame ==
  /\ UNCHANGED part => (Whole <=> Whole')
  /\ UNCHANGED update => (Pending <=> Pending')
  /\ Works => (UpdateUnreadable <=> UpdateUnreadable')
  /\ \A k \in FaultKind : Adverse(k) /\ UpdateUnreadable => UpdateUnreadable'
  /\ \A k \in {"open", "header", "read"} : Adverse(k) /\ TypeOK => UpdateUnreadable'
<1>1. UNCHANGED part => (Whole <=> Whole')
  BY DEF Whole, Intact, Holds
<1>2. UNCHANGED update => (Pending <=> Pending')
  BY DEF Pending, Installable
<1>3. Works => (UpdateUnreadable <=> UpdateUnreadable')
  BY DEF Works, UpdateUnreadable
<1>4. \A k \in FaultKind : Adverse(k) /\ UpdateUnreadable => UpdateUnreadable'
  BY DEF Adverse, UpdateUnreadable
<1>5. \A k \in {"open", "header", "read"} : Adverse(k) /\ TypeOK => UpdateUnreadable'
  BY DEF Adverse, UpdateUnreadable
<1>6. QED
  BY <1>1, <1>2, <1>3, <1>4, <1>5

\* Programming a read chunk extends the copied prefix of the image by it.
LEMMA ProgrammedHolds ==
  ASSUME TypeOK, hdr \in Image, fpos = offset, Holds(part, hdr, offset),
         NEW n \in Nat
  PROVE  Holds(Programmed(n, RoundUp(n), RoundUp(n)), hdr, offset + n)
<1>1. RoundUp(n) \in Nat /\ RoundUp(n) >= n
  BY RoundUpGrows
<1>2. Least(RoundUp(n), n) = n
  BY <1>1 DEF Least
<1>3. SUFFICES ASSUME NEW i \in Addr, i < offset + n
               PROVE  Programmed(n, RoundUp(n), RoundUp(n))[i] = <<hdr, i>>
  BY DEF Holds
<1>4. i \in Nat /\ offset \in Nat
  BY DEF TypeOK, Addr
<1>5. CASE i < offset
  BY <1>4, <1>5 DEF Programmed, Holds
<1>6. CASE offset <= i
  <2>1. Programmed(n, RoundUp(n), RoundUp(n))[i] = <<hdr, fpos + (i - offset)>>
    BY <1>2, <1>3, <1>4, <1>6 DEF Programmed
  <2>2. fpos + (i - offset) = i
    BY <1>4
  <2>3. QED
    BY <2>1, <2>2
<1>7. QED
  BY <1>4, <1>5, <1>6

\* A file being installed is longer than what was read of it.
LEMMA CopyReads ==
  ASSUME TypeInv, UpdateInv, pc = "copy", offset < ImageLen[hdr]
  PROVE  /\ Unread \in Nat \ {0}
         /\ Unread <= ImageLen[hdr] - offset
<1>1. /\ update \in File /\ Installable(update) /\ hdr = update.img
      /\ hdr \in Image /\ fpos = offset /\ offset \in Nat
  BY DEF TypeInv, TypeOK, Present, UpdateInv, Pending
<1>2. /\ ImageLen[hdr] \in Nat /\ update.size \in Nat
      /\ ImageLen[hdr] <= update.size
  BY <1>1 DEF Installable, File
<1>3. QED
  BY <1>1, <1>2 DEF Unread, Least

\* When the loop of perform_ota ends, the partition holds the image.
LEMMA DoneIsIntact ==
  ASSUME TypeInv, UpdateInv, CopyDone
  PROVE  Intact(hdr) /\ hdr \in Bootable /\ hdr = update.img
<1>1. /\ Installable(update) /\ hdr = update.img /\ Holds(part, hdr, offset)
      /\ offset >= ImageLen[hdr]
  BY DEF CopyDone, UpdateInv, Pending
<1>2. hdr \in Bootable /\ ImageLen[hdr] <= PartSize
  BY <1>1 DEF Installable, Bootable
<1>3. Holds(part, hdr, ImageLen[hdr])
  BY <1>1 DEF Holds, TypeInv, TypeOK, Present, CopyDone, Addr
<1>4. QED
  BY <1>1, <1>2, <1>3 DEF Intact

LEMMA UpdateInvStep == TypeInv /\ UpdateInv /\ [Next]_vars => UpdateInv'
<1> SUFFICES ASSUME TypeInv, UpdateInv, [Next]_vars PROVE UpdateInv'
  OBVIOUS
<1>a. TypeOK /\ Present
  BY DEF TypeInv
<1>1. ASSUME NEW m \in Image, BeginDownload(m) PROVE UpdateInv'
  BY <1>1, Frame DEF BeginDownload, Locals, UpdateInv, RecoverableIfReadable, SketchPc, LoaderPc
<1>2. CASE DownloadMore
  BY <1>2, Frame DEF DownloadMore, Locals, UpdateInv, RecoverableIfReadable, SketchPc, LoaderPc
<1>3. CASE AbortDownload
  BY <1>3, Frame DEF AbortDownload, Locals, UpdateInv, RecoverableIfReadable, SketchPc, LoaderPc
<1>4. CASE FinishDownload
  BY <1>4, Frame DEF FinishDownload, Locals, UpdateInv, RecoverableIfReadable, SketchPc, LoaderPc
<1>5. CASE MarkReady
  \* The update file may be replaced by one that is not acceptable: the
  \* running sketch is whole, so nothing depends on the file that is lost.
  BY <1>5, Frame DEF MarkReady, Locals, UpdateInv, RecoverableIfReadable, SketchPc, LoaderPc
<1>6. CASE StartOta
  BY <1>6, Frame DEF StartOta, Boot, UpdateInv, RecoverableIfReadable, SketchPc, LoaderPc
<1>7. CASE OpenArea
  BY <1>7, Frame DEF OpenArea, Locals, UpdateInv, RecoverableIfReadable, SketchPc, LoaderPc, FaultKind
<1>8. CASE StatUpdate
  BY <1>8, Frame DEF StatUpdate, Locals, UpdateInv, RecoverableIfReadable, SketchPc, LoaderPc, FaultKind
<1>9. CASE OpenUpdate
  BY <1>9, <1>a, Frame DEF OpenUpdate, UpdateInv, RecoverableIfReadable, SketchPc, LoaderPc, FaultKind
<1>10. CASE AcceptUpdate
  BY <1>10, <1>a, Frame
     DEF AcceptUpdate, UpdateInv, RecoverableIfReadable, SketchPc, LoaderPc, Pending, Present
<1>11. CASE RejectUpdate
  BY <1>11, <1>a, Frame
     DEF RejectUpdate, UpdateInv, RecoverableIfReadable, SketchPc, LoaderPc, FaultKind, Pending, Installable
<1>12. CASE EraseArea
  <2>1. /\ Pending' /\ hdr' = update'.img /\ offset' = 0
        /\ pc' \in {"seek", "cleanup"} /\ ~delete'
    BY <1>12, Frame DEF EraseArea, Locals, UpdateInv, LoaderPc
  <2>2. QED
    BY <2>1 DEF UpdateInv, RecoverableIfReadable, SketchPc, LoaderPc
<1>13. CASE SeekStart
  <2>1. /\ Pending' /\ hdr' = update'.img /\ offset' = 0 /\ hdr' \in Image
        /\ pc' \in {"copy", "cleanup"} /\ ~delete'
    BY <1>13, <1>a, Frame DEF SeekStart, UpdateInv, LoaderPc, Present
  <2>2. pc' = "copy" => fpos' = offset' /\ offset' <= ImageLen[hdr'] /\ Holds(part', hdr', offset')
    BY <1>13, <2>1 DEF SeekStart, Holds, Addr
  <2>3. QED
    BY <2>1, <2>2 DEF UpdateInv, RecoverableIfReadable, SketchPc, LoaderPc
<1>14. CASE CopyChunk
  <2>1. PICK n \in 1 .. Unread :
          /\ ReadReturns(n)
          /\ part' = Programmed(n, RoundUp(n), RoundUp(n))
          /\ offset' = offset + n
          /\ fpos' = fpos + n
    BY <1>14 DEF CopyChunk
  <2>2. /\ n \in Nat /\ offset \in Nat /\ ImageLen[hdr] \in Nat /\ hdr \in Image
        /\ n <= ImageLen[hdr] - offset
    BY <1>14, <1>a, <2>1, CopyReads DEF CopyChunk, TypeOK, Present
  <2>3. fpos = offset /\ Holds(part, hdr, offset) /\ Pending /\ hdr = update.img
    BY <1>14 DEF CopyChunk, UpdateInv
  <2>4. Holds(part', hdr, offset')
    BY <1>a, <2>1, <2>2, <2>3, ProgrammedHolds
  <2>5. fpos' = offset' /\ offset' <= ImageLen[hdr]
    BY <2>1, <2>2, <2>3
  <2>6. Pending' /\ pc' = "copy" /\ hdr' = hdr /\ update' = update /\ ~delete'
    BY <1>14, <2>3, Frame DEF CopyChunk, UpdateInv, LoaderPc
  <2>7. QED
    BY <2>3, <2>4, <2>5, <2>6 DEF UpdateInv, RecoverableIfReadable, SketchPc, LoaderPc
<1>15. CASE WriteFails
  <2>1. Pending' /\ pc' = "cleanup" /\ ~delete'
    BY <1>15, Frame DEF WriteFails, Locals, UpdateInv, LoaderPc
  <2>2. QED
    BY <2>1 DEF UpdateInv, RecoverableIfReadable, SketchPc, LoaderPc
<1>16. CASE ShortRead
  <2>1. Pending' /\ pc' = "cleanup"
    BY <1>16, Frame DEF ShortRead, UpdateInv
  <2>2. UpdateUnreadable'
    BY <1>16, <1>a, Frame, CopyReads DEF ShortRead
  <2>3. QED
    BY <2>1, <2>2 DEF UpdateInv, RecoverableIfReadable, SketchPc, LoaderPc
<1>17. CASE CopyDone
  <2>1. Intact(hdr) /\ hdr \in Bootable
    BY <1>17, <1>a, DoneIsIntact
  <2>2. Whole' /\ Intact(update.img)'
    BY <1>17, <2>1, Frame DEF CopyDone, Whole, UpdateInv, Intact, Holds
  <2>3. QED
    BY <1>17, <2>2 DEF CopyDone, UpdateInv, RecoverableIfReadable, SketchPc, LoaderPc
<1>18. CASE CleanUp
  <2>1. delete => UpdateUnreadable \/ Whole
    BY <1>18 DEF CleanUp, UpdateInv, RecoverableIfReadable, Pending, Whole, Bootable, Installable
  <2>2. QED
    BY <1>18, <2>1, Frame DEF CleanUp, Locals, UpdateInv, RecoverableIfReadable, SketchPc, LoaderPc, FaultKind
<1>19. CASE ReadHeader
  BY <1>19, Frame
     DEF ReadHeader, HeaderOf, UpdateInv, RecoverableIfReadable, SketchPc, LoaderPc, FaultKind
<1>20. CASE StartSketch
  <2>1. pc' = "sketch" => Whole'
    <3>1. CASE Intact(hdr)
      <4>1. hdr \in Bootable
        BY <1>20, <3>1 DEF StartSketch, UpdateInv, Bootable, Intact
      <4>2. QED
        BY <1>20, <3>1, <4>1, Frame DEF StartSketch, Whole
    <3>2. CASE ~Intact(hdr)
      BY <1>20, <3>2 DEF StartSketch
    <3>3. QED
      BY <3>1, <3>2
  <2>2. QED
    BY <1>20, <2>1, Frame
       DEF StartSketch, Locals, UpdateInv, RecoverableIfReadable, SketchPc, LoaderPc, FaultKind
<1>21. CASE PowerCut
  <2>1. Pending' \/ UNCHANGED part
    BY <1>21, Frame DEF PowerCut, UpdateInv
  <2>2. UpdateUnreadable => UpdateUnreadable'
    BY <1>21, Frame DEF PowerCut, FaultKind
  <2>3. RecoverableIfReadable'
    BY <1>21, <2>1, <2>2, Frame DEF PowerCut, UpdateInv, RecoverableIfReadable
  <2>4. QED
    BY <1>21, <2>3 DEF PowerCut, Boot, UpdateInv, SketchPc, LoaderPc
<1>22. CASE Reset
  BY <1>22, Frame DEF Reset, Boot, UpdateInv, RecoverableIfReadable, SketchPc, LoaderPc
<1>23. CASE UNCHANGED vars
  BY <1>23, Frame DEF vars, UpdateInv, RecoverableIfReadable, Works, Holds, Intact, Installable
<1>24. QED
  BY <1>1, <1>2, <1>3, <1>4, <1>5, <1>6, <1>7, <1>8, <1>9, <1>10, <1>11, <1>12,
     <1>13, <1>14, <1>15, <1>16, <1>17, <1>18, <1>19, <1>20, <1>21, <1>22, <1>23
     DEF Next, LoaderStep, SketchStep

\* The update invariant holds in every reachable state.
THEOREM Updating == Spec => [](TypeInv /\ UpdateInv)
<1>1. Init => TypeInv /\ UpdateInv
  <2> SUFFICES ASSUME Init PROVE TypeInv /\ UpdateInv
    OBVIOUS
  <2>1. TypeInv
    BY InitTypeInv
  <2>2. Whole
    BY DEF Init, Whole, Intact, Holds, Bootable, Addr
  <2>3. QED
    BY <2>1, <2>2 DEF Init, UpdateInv, RecoverableIfReadable, SketchPc, LoaderPc
<1>2. QED
  BY <1>1, TypeInvStep, UpdateInvStep, PTL DEF Spec

\* Whatever fails, and wherever the power goes, a partition that is not a
\* whole sketch comes with an acceptable update file to repair it, unless a
\* call on that very file failed and made the loader delete it.
THEOREM Recovery == Spec => []RecoverableIfReadable
<1>1. UpdateInv => RecoverableIfReadable
  BY DEF UpdateInv
<1>2. QED
  BY <1>1, Updating, PTL

\* An update file is deleted only once its image is whole in the partition or
\* because the loader refuses it, unless a call on the file failed.
THEOREM Consumption == Spec => UpdateConsumed
<1>1. ASSUME TypeInv, UpdateInv, [Next]_vars,
             pc = "cleanup", update # NoFile, update' = NoFile
      PROVE  UpdateUnreadable \/ Intact(update.img) \/ ~Installable(update)
  <2>1. CASE CleanUp
    BY <1>1, <2>1 DEF CleanUp, UpdateInv
  <2>2. CASE PowerCut
    BY <1>1, <2>2 DEF PowerCut
  <2>3. CASE UNCHANGED vars
    BY <1>1, <2>3 DEF vars
  <2>4. QED
    BY <1>1, <2>1, <2>2, <2>3
       DEF Next, LoaderStep, SketchStep, OpenArea, StatUpdate, OpenUpdate, AcceptUpdate,
           RejectUpdate, EraseArea, SeekStart, CopyChunk, WriteFails, ShortRead, CopyDone,
           ReadHeader, StartSketch, BeginDownload, DownloadMore, AbortDownload,
           FinishDownload, MarkReady, StartOta, Reset, StoppedPc
<1>2. TypeInv /\ UpdateInv /\ [Next]_vars
        => [ pc = "cleanup" /\ update # NoFile /\ update' = NoFile
               => UpdateUnreadable \/ Intact(update.img) \/ ~Installable(update) ]_vars
  BY <1>1
<1>3. QED
  BY <1>2, Updating, PTL DEF Spec, UpdateConsumed

-----------------------------------------------------------------------------
(* Write blocks *)

LEMMA DivisionFacts ==
  ASSUME NEW a \in Nat
  PROVE  /\ (a \div WriteBlock) \in Nat
         /\ a = WriteBlock * (a \div WriteBlock) + (a % WriteBlock)
         /\ (a % WriteBlock) \in Nat /\ (a % WriteBlock) < WriteBlock
BY SMT

\* A multiple of the block leaves no rest.
LEMMA MultipleRest ==
  ASSUME NEW k \in Nat
  PROVE  WriteBlock * k \in Nat /\ (WriteBlock * k) % WriteBlock = 0
<1>1. WriteBlock * k \in Nat
  BY SMT
<1> DEFINE q == (WriteBlock * k) \div WriteBlock
           r == (WriteBlock * k) % WriteBlock
<1>2. q \in Nat /\ r \in Nat /\ r < WriteBlock /\ WriteBlock * k = WriteBlock * q + r
  BY <1>1, DivisionFacts
<1> HIDE DEF q, r
<1>3. WriteBlock * (k - q) = r
  BY <1>2, SMT
<1>4. k - q = 0
  <2>1. CASE k - q >= 1
    BY <1>2, <1>3, <2>1, SMT
  <2>2. CASE k - q <= -1
    BY <1>2, <1>3, <2>2, SMT
  <2>3. QED
    BY <1>2, <2>1, <2>2
<1>5. r = 0
  BY <1>2, <1>3, <1>4, SMT
<1>6. QED
  BY <1>1, <1>5 DEF r

LEMMA SumAligned ==
  ASSUME NEW a \in Nat, NEW b \in Nat, a % WriteBlock = 0, b % WriteBlock = 0
  PROVE  (a + b) % WriteBlock = 0
<1> DEFINE i == a \div WriteBlock
           j == b \div WriteBlock
<1>1. i \in Nat /\ j \in Nat /\ a = WriteBlock * i /\ b = WriteBlock * j
  BY DivisionFacts
<1> HIDE DEF i, j
<1>2. i + j \in Nat /\ a + b = WriteBlock * (i + j)
  BY <1>1, SMT
<1>3. QED
  BY <1>2, MultipleRest

\* A chunk that is padded to whole blocks is accepted wherever the chunk
\* itself fits behind whole blocks.
LEMMA PaddedFits ==
  ASSUME NEW a \in Nat, a % WriteBlock = 0, NEW n \in Nat, a + n <= PartSize
  PROVE  RoundUp(n) % WriteBlock = 0 /\ a + RoundUp(n) <= PartSize
<1> DEFINE i == a \div WriteBlock
           j == n \div WriteBlock
           p == PartSize \div WriteBlock
           r == n % WriteBlock
<1>1. /\ i \in Nat /\ a = WriteBlock * i
      /\ p \in Nat /\ PartSize = WriteBlock * p
      /\ j \in Nat /\ r \in Nat /\ r < WriteBlock /\ n = WriteBlock * j + r
  BY DivisionFacts
<1> HIDE DEF i, j, p
<1>2. CASE r = 0
  BY <1>2 DEF RoundUp, r
<1>3. CASE r # 0
  <2>1. RoundUp(n) = WriteBlock * (j + 1) /\ j + 1 \in Nat
    <3>1. RoundUp(n) = n + (WriteBlock - r)
      BY <1>3 DEF RoundUp, r
    <3> HIDE DEF r
    <3>2. QED
      BY <1>1, <3>1, SMT
  <2> HIDE DEF r
  <2>2. WriteBlock * (i + j) < WriteBlock * p
    BY <1>1, <1>3, SMT
  <2>3. i + j < p
    <3>1. CASE i + j >= p
      <4>1. WriteBlock * (i + j) >= WriteBlock * p
        BY <1>1, <3>1, SMT
      <4>2. QED
        BY <1>1, <2>2, <4>1, SMT
    <3>2. QED
      BY <1>1, <3>1
  <2>4. WriteBlock * (i + j + 1) <= WriteBlock * p
    BY <1>1, <2>3, SMT
  <2>5. a + RoundUp(n) = WriteBlock * (i + j + 1)
    BY <1>1, <2>1, SMT
  <2>6. QED
    BY <1>1, <2>1, <2>4, <2>5, MultipleRest
<1>4. QED
  BY <1>2, <1>3

-----------------------------------------------------------------------------
(* Whole sketches only *)

\* Nothing but the power and the calls before and after the update has failed.
Quiet == ~UpdateStopped /\ ~UpdateUnreadable

\* Without partial reads every chunk but the last one ends with its block.
Aligned ==
  pc = "copy" /\ "partial" \notin seen
    => offset % WriteBlock = 0 \/ offset = ImageLen[hdr]

\* What makes StartsWhole inductive: where the update has come to its end, or
\* was none, the partition is whole, and the header read is that of its sketch.
StartInv ==
  /\ Aligned
  /\ Quiet /\ pc \in {"cleanup", "header", "start"} => Whole
  /\ Quiet /\ pc = "start" => Intact(hdr)
  /\ StartsWhole

\* The first byte tells whose image a whole partition holds.
LEMMA FirstByte ==
  ASSUME NEW p, NEW m \in Bootable, Holds(p, m, HeaderLen) \/ Holds(p, m, ImageLen[m])
  PROVE  p[0] = <<m, 0>>
<1>1. 0 \in Addr /\ 0 < HeaderLen
  BY DEF Addr
<1>2. m \in Image /\ ImageLen[m] \in Nat /\ HeaderLen <= ImageLen[m]
  BY DEF Bootable
<1>3. QED
  BY <1>1, <1>2 DEF Holds

LEMMA SeenGrows ==
  ASSUME TypeOK, [Next]_vars
  PROVE  seen \subseteq seen' /\ (Quiet' => Quiet)
<1>1. seen \subseteq seen'
  <2>1. Works => seen \subseteq seen'
    BY DEF Works
  <2>2. \A k \in FaultKind : Adverse(k) => seen \subseteq seen'
    BY DEF Adverse
  <2>3. QED
    BY <2>1, <2>2
       DEF Next, LoaderStep, SketchStep, OpenArea, StatUpdate, OpenUpdate, AcceptUpdate,
           RejectUpdate, EraseArea, SeekStart, CopyChunk, WriteFails, ShortRead, CopyDone,
           CleanUp, ReadHeader, StartSketch, BeginDownload, DownloadMore, AbortDownload,
           FinishDownload, MarkReady, StartOta, Reset, PowerCut, ReadReturns, FaultKind, vars
<1>2. QED
  BY <1>1 DEF Quiet, UpdateStopped, UpdateUnreadable

LEMMA FaultIsHeard ==
  ASSUME TypeOK, NEW k \in {"stat", "erase", "seek", "partial", "write", "open", "header", "read"},
         Adverse(k)
  PROVE  ~Quiet'
BY DEF Quiet, UpdateStopped, UpdateUnreadable, Adverse

\* While nothing goes wrong, a chunk is a whole one or ends the image.
LEMMA ChunkIsWhole ==
  ASSUME TypeInv, UpdateInv, pc = "copy", offset < ImageLen[hdr]
  PROVE  Unread = ChunkSize \/ offset + Unread = ImageLen[hdr]
<1>1. /\ update \in File /\ Installable(update) /\ hdr = update.img
      /\ hdr \in Image /\ fpos = offset /\ offset \in Nat
  BY DEF TypeInv, TypeOK, Present, UpdateInv, Pending
<1>2. /\ ImageLen[hdr] \in Nat /\ update.size \in Nat
      /\ ImageLen[hdr] <= update.size
  BY <1>1 DEF Installable, File
<1>3. QED
  BY <1>1, <1>2 DEF Unread, Least

\* flash_area_write does not refuse what perform_ota writes after whole reads.
LEMMA WholeReadAccepted ==
  ASSUME TypeInv, UpdateInv, Aligned, pc = "copy", offset < ImageLen[hdr], "partial" \notin seen
  PROVE  WriteAccepted(RoundUp(Unread))
<1>1. /\ hdr \in Image /\ offset \in Nat /\ ImageLen[hdr] \in Nat
      /\ ImageLen[hdr] <= PartSize
  BY DEF TypeInv, TypeOK, Present, UpdateInv, Pending, Installable
<1>2. Unread \in Nat /\ Unread <= ImageLen[hdr] - offset
  BY CopyReads
<1>3. offset % WriteBlock = 0
  BY <1>1 DEF Aligned
<1>4. offset + Unread <= PartSize
  BY <1>1, <1>2
<1>5. QED
  BY <1>1, <1>2, <1>3, <1>4, PaddedFits DEF WriteAccepted

LEMMA StartInvStep == TypeInv /\ UpdateInv /\ StartInv /\ [Next]_vars => StartInv'
<1> SUFFICES ASSUME TypeInv, UpdateInv, StartInv, [Next]_vars PROVE StartInv'
  OBVIOUS
<1>a. TypeOK /\ Present
  BY DEF TypeInv
<1>b. seen \subseteq seen' /\ (Quiet' => Quiet)
  BY <1>a, SeenGrows
<1>c. Quiet => Whole \/ Pending
  BY DEF Quiet, UpdateInv, RecoverableIfReadable
<1>d. ASSUME ~Quiet', pc' \notin {"copy", "start"} PROVE StartInv'
  BY <1>d DEF StartInv, Quiet, Aligned, StartsWhole
<1>1. ASSUME pc' \notin {"copy", "cleanup", "header", "start", "truncated"} PROVE StartInv'
  BY <1>1 DEF StartInv, Aligned, StartsWhole
<1>2. CASE SketchStep \/ PowerCut \/ Reset \/ OpenArea \/ AcceptUpdate
  BY <1>1, <1>2
     DEF SketchStep, BeginDownload, DownloadMore, AbortDownload, FinishDownload, MarkReady,
         StartOta, PowerCut, Reset, Boot, OpenArea, AcceptUpdate
<1>3. CASE StatUpdate
  <2>1. CASE pc' # "header"
    BY <1>1, <1>3, <2>1 DEF StatUpdate
  <2>2. CASE Adverse("stat") /\ pc' = "header"
    BY <1>a, <1>d, <2>2, FaultIsHeard
  <2>3. CASE Works /\ update = NoFile /\ pc' = "header"
    <3>1. UNCHANGED part
      BY <1>3 DEF StatUpdate
    <3>2. Quiet' => Whole'
      BY <1>b, <1>c, <2>3, <3>1, Frame DEF Pending
    <3>3. QED
      BY <2>3, <3>2 DEF StartInv, Aligned, StartsWhole
  <2>4. QED
    BY <1>3, <2>1, <2>2, <2>3 DEF StatUpdate
<1>4. CASE OpenUpdate
  BY <1>1, <1>4, <1>a, <1>d, FaultIsHeard DEF OpenUpdate
<1>5. CASE RejectUpdate
  <2>1. CASE Adverse("header")
    BY <1>5, <1>a, <1>d, <2>1, FaultIsHeard DEF RejectUpdate
  <2>2. CASE ~Installable(update)
    <3>1. UNCHANGED part /\ pc' = "cleanup"
      BY <1>5 DEF RejectUpdate
    <3>2. Quiet' => Whole'
      BY <1>b, <1>c, <2>2, <3>1, Frame DEF Pending
    <3>3. QED
      BY <3>1, <3>2 DEF StartInv, Aligned, StartsWhole
  <2>3. QED
    BY <1>5, <2>1, <2>2 DEF RejectUpdate
<1>6. CASE EraseArea
  BY <1>1, <1>6, <1>a, <1>d, FaultIsHeard DEF EraseArea
<1>7. CASE SeekStart
  <2>1. CASE Adverse("seek") /\ pc' = "cleanup"
    BY <1>a, <1>d, <2>1, FaultIsHeard
  <2>2. CASE pc' = "copy"
    <3>1. offset' = 0
      BY <1>7 DEF SeekStart, UpdateInv
    <3>2. offset' % WriteBlock = 0
      BY <3>1, MultipleRest
    <3>3. QED
      BY <2>2, <3>2 DEF StartInv, Aligned, StartsWhole
  <2>3. QED
    BY <1>7, <2>1, <2>2 DEF SeekStart
<1>8. CASE CopyChunk
  <2>1. PICK n \in 1 .. Unread : ReadReturns(n) /\ offset' = offset + n
    BY <1>8 DEF CopyChunk
  <2>2. pc = "copy" /\ pc' = "copy" /\ offset < ImageLen[hdr] /\ hdr' = hdr
    BY <1>8 DEF CopyChunk
  <2>3. offset \in Nat /\ ImageLen[hdr] \in Nat
    BY <1>a, <2>2 DEF TypeOK, Present
  <2>4. Aligned'
    <3>1. SUFFICES ASSUME "partial" \notin seen'
                   PROVE  offset' % WriteBlock = 0 \/ offset' = ImageLen[hdr]
      BY <2>2 DEF Aligned
    <3>2. n = Unread
      BY <1>a, <2>1, <3>1 DEF ReadReturns, Adverse
    <3>3. offset % WriteBlock = 0
      BY <1>b, <2>2, <2>3, <3>1 DEF StartInv, Aligned
    <3>4. CASE n = ChunkSize
      BY <2>1, <2>3, <3>3, <3>4, SumAligned
    <3>5. CASE offset + n = ImageLen[hdr]
      BY <2>1, <3>5
    <3>6. QED
      BY <2>2, <3>2, <3>4, <3>5, ChunkIsWhole
  <2>5. QED
    BY <2>2, <2>4 DEF StartInv, StartsWhole
<1>9. CASE WriteFails
  <2>1. pc' = "cleanup"
    BY <1>9 DEF WriteFails
  <2>2. ~Quiet'
    <3>1. CASE Adverse("partial") \/ Adverse("write")
      BY <1>a, <3>1, FaultIsHeard
    <3>2. CASE ~WriteAccepted(RoundUp(Unread))
      <4>1. pc = "copy" /\ offset < ImageLen[hdr]
        BY <1>9 DEF WriteFails
      <4>2. "partial" \in seen
        BY <3>2, <4>1, WholeReadAccepted DEF StartInv
      <4>3. QED
        BY <1>b, <4>2 DEF Quiet, UpdateStopped
    <3>3. QED
      BY <1>9, <3>1, <3>2 DEF WriteFails, ReadReturns
  <2>3. QED
    BY <1>d, <2>1, <2>2
<1>10. CASE ShortRead
  <2>1. pc = "copy" /\ offset < ImageLen[hdr] /\ pc' = "cleanup"
    BY <1>10 DEF ShortRead
  <2>2. Adverse("read")
    BY <1>10, <2>1, CopyReads DEF ShortRead
  <2>3. QED
    BY <1>a, <1>d, <2>1, <2>2, FaultIsHeard
<1>11. CASE CopyDone
  <2>1. Whole
    BY <1>11, DoneIsIntact DEF Whole
  <2>2. Whole' /\ pc' = "cleanup"
    BY <1>11, <2>1, Frame DEF CopyDone
  <2>3. QED
    BY <2>2 DEF StartInv, Aligned, StartsWhole
<1>12. CASE CleanUp
  <2>1. Quiet' => Whole
    BY <1>12, <1>b DEF CleanUp, StartInv
  <2>2. UNCHANGED part /\ pc' = "header"
    BY <1>12 DEF CleanUp
  <2>3. QED
    BY <2>1, <2>2, Frame DEF StartInv, Aligned, StartsWhole
<1>13. CASE ReadHeader
  <2>1. CASE pc' # "start"
    BY <1>1, <1>13, <2>1 DEF ReadHeader
  <2>2. CASE pc' = "start"
    <3>1. hdr' \in HeaderOf(part) /\ UNCHANGED part /\ pc = "header"
      BY <1>13, <2>2 DEF ReadHeader
    <3>2. ASSUME Quiet' PROVE Whole' /\ Intact(hdr)'
      <4>1. Whole
        BY <1>b, <3>1, <3>2 DEF StartInv
      <4>2. PICK m \in Bootable : Intact(m)
        BY <4>1 DEF Whole
      <4>3. hdr' \in Valid /\ Holds(part, hdr', HeaderLen)
        BY <3>1 DEF HeaderOf
      <4>4. part[0] = <<m, 0>>
        BY <4>2, FirstByte DEF Intact
      <4>5. part[0] = <<hdr', 0>>
        <5>1. 0 \in Addr /\ 0 < HeaderLen
          BY DEF Addr
        <5>2. QED
          BY <4>3, <5>1 DEF Holds
      <4>6. hdr' = m
        BY <4>4, <4>5
      <4>7. Intact(hdr)'
        BY <3>1, <4>2, <4>6 DEF Intact, Holds
      <4>8. QED
        BY <3>1, <4>1, <4>7, Frame
    <3>3. QED
      BY <2>2, <3>2 DEF StartInv, Aligned, StartsWhole
  <2>3. QED
    BY <2>1, <2>2
<1>14. CASE StartSketch
  <2>1. CASE pc' # "truncated"
    BY <1>1, <1>14, <2>1 DEF StartSketch
  <2>2. CASE pc' = "truncated"
    <3>1. pc = "start" /\ ~Intact(hdr)
      BY <1>14, <2>2 DEF StartSketch
    <3>2. ~Quiet'
      BY <1>b, <3>1 DEF StartInv
    <3>3. QED
      BY <1>d, <2>2, <3>2
  <2>3. QED
    BY <2>1, <2>2
<1>15. CASE UNCHANGED vars
  BY <1>15, Frame
     DEF vars, StartInv, Aligned, StartsWhole, Quiet, UpdateStopped, UpdateUnreadable, Intact, Holds
<1>16. QED
  BY <1>2, <1>3, <1>4, <1>5, <1>6, <1>7, <1>8, <1>9, <1>10, <1>11, <1>12, <1>13, <1>14, <1>15
     DEF Next, LoaderStep

\* The loader jumps into a sketch torn behind its header only when a call of
\* the update failed: power cuts, wherever they come, never make it do so.
THEOREM WholeSketchesStart == Spec => []StartsWhole
<1>1. Init => StartInv
  BY DEF Init, StartInv, Aligned, StartsWhole
<1>2. StartInv => StartsWhole
  BY DEF StartInv
<1>3. QED
  BY <1>1, <1>2, StartInvStep, Updating, PTL DEF Spec

-----------------------------------------------------------------------------
(* The update as an atomic replacement *)

\* The faults that leave the update an atomic step: the power, calls that come
\* before the update, and those that come after the copy.
CopyUndisturbed == Fault \subseteq {"power", "area", "partition", "load", "rename", "unlink"}

\* What the refinement rests on, under CopyUndisturbed.
ReplaceInv ==
  /\ seen \subseteq Fault
  \* Files are as long as the server holds them.
  /\ update # NoFile => update.size = FileLen[update.img]
  /\ pc = "ready" => temp.size = FileLen[temp.img]
  \* An update is decided before the sketch is looked at.
  /\ pc = "cleanup" => delete
  /\ pc \in {"header", "start"} => (Pending => Intact(update.img))
  \* From the erase on, the partition holds no other sketch.
  /\ pc \in {"seek", "copy"} => part[0] \in {Blank, <<hdr, 0>>}

\* A partition that starts like image m, or is blank there, is whole as m only.
LEMMA OnlyItsImage ==
  ASSUME NEW p, NEW m, p[0] \in {Blank, <<m, 0>>},
         NEW w \in Bootable, Holds(p, w, ImageLen[w])
  PROVE  w = m
<1>1. p[0] = <<w, 0>>
  BY FirstByte
<1>2. <<w, 0>> # Blank
  BY DEF Bootable
<1>3. QED
  BY <1>1, <1>2

\* Programming a chunk of the image keeps the first byte so, however little of
\* the chunk gets there.
LEMMA FirstByteKept ==
  ASSUME TypeInv, UpdateInv, pc = "copy", part[0] \in {Blank, <<hdr, 0>>},
         NEW n \in Nat \ {0}, NEW w \in Nat, NEW k \in Nat
  PROVE  Programmed(n, w, k)[0] \in {Blank, <<hdr, 0>>}
<1>1. 0 \in Addr /\ offset \in Nat /\ fpos = offset
  BY DEF Addr, TypeInv, TypeOK, UpdateInv
<1>2. CASE offset = 0 /\ k > 0
  <2>1. 0 < offset + Least(k, n)
    BY <1>1, <1>2 DEF Least
  <2>2. Programmed(n, w, k)[0] = <<hdr, fpos + (0 - offset)>>
    BY <1>1, <1>2, <2>1 DEF Programmed
  <2>3. fpos + (0 - offset) = 0
    BY <1>1, <1>2
  <2>4. QED
    BY <2>2, <2>3
<1>3. CASE offset > 0 \/ k = 0
  <2>1. ~(offset <= 0 /\ 0 < offset + Least(k, n)) /\ ~(offset + n <= 0)
    BY <1>1, <1>3 DEF Least
  <2>2. Programmed(n, w, k)[0] = part[0]
    BY <1>1, <2>1 DEF Programmed
  <2>3. QED
    BY <2>2
<1>4. QED
  BY <1>1, <1>2, <1>3

\* The image a whole partition holds.
ImageOf(p) == CHOOSE m \in Bootable : ImageLen[m] <= PartSize /\ Holds(p, m, ImageLen[m])

LEMMA ImageOfWhole ==
  ASSUME NEW p, NEW m \in Bootable, Holds(p, m, ImageLen[m])
  PROVE  ImageOf(p) = m
<1>1. ImageLen[m] <= PartSize
  BY DEF Bootable
<1>2. /\ ImageOf(p) \in Bootable
      /\ Holds(p, ImageOf(p), ImageLen[ImageOf(p)])
  BY <1>1, Zenon DEF ImageOf
<1>3. p[0] = <<m, 0>>
  BY FirstByte
<1>4. p[0] = <<ImageOf(p), 0>>
  BY <1>2, FirstByte
<1>5. QED
  BY <1>3, <1>4

\* What the partition counts as, before and after a step.
LEMMA PartImageWhole ==
  /\ Whole => PartImage = ImageOf(part) /\ PartImage \in Bootable
  /\ Whole' => PartImage' = ImageOf(part')
  /\ \A m \in Bootable : Intact(m) => PartImage = m
<1>1. Whole => PartImage = ImageOf(part)
  BY Zenon DEF PartImage, ImageOf, Intact
<1>2. Whole' => PartImage' = ImageOf(part')
  BY Zenon DEF PartImage, ImageOf, Intact
<1>3. ASSUME NEW m \in Bootable, Intact(m) PROVE PartImage = m
  BY <1>1, <1>3, ImageOfWhole DEF Whole, Intact
<1>4. QED
  BY <1>1, <1>2, <1>3 DEF Whole

LEMMA PartImageStays ==
  /\ UNCHANGED part /\ Whole => PartImage' = PartImage
  /\ UNCHANGED <<part, update>> => PartImage' = PartImage
<1>1. UNCHANGED part /\ Whole => PartImage' = PartImage
  BY PartImageWhole, Frame
<1>2. UNCHANGED <<part, update>> /\ ~Whole => PartImage' = PartImage
  BY Frame DEF PartImage
<1>3. QED
  BY <1>1, <1>2

\* A partition the update has begun to fill counts as the update.
LEMMA PartImageOffered ==
  /\ update # NoFile /\ part[0] \in {Blank, <<update.img, 0>>} => PartImage = update.img
  /\ update' # NoFile /\ part'[0] \in {Blank, <<update'.img, 0>>} => PartImage' = update'.img
<1>1. ASSUME update # NoFile, part[0] \in {Blank, <<update.img, 0>>}
      PROVE  PartImage = update.img
  <2>1. CASE Whole
    <3>1. PICK m \in Bootable : Intact(m)
      BY <2>1 DEF Whole
    <3>2. m = update.img
      BY <1>1, <3>1, OnlyItsImage DEF Intact
    <3>3. QED
      BY <3>1, <3>2, PartImageWhole
  <2>2. CASE ~Whole
    BY <1>1, <2>2 DEF PartImage
  <2>3. QED
    BY <2>1, <2>2
<1>2. ASSUME update' # NoFile, part'[0] \in {Blank, <<update'.img, 0>>}
      PROVE  PartImage' = update'.img
  <2>1. CASE Whole'
    <3>1. PICK m \in Bootable : Holds(part', m, ImageLen[m])
      BY <2>1 DEF Whole, Intact
    <3>2. m = update'.img
      BY <1>2, <3>1, OnlyItsImage
    <3>3. QED
      BY <2>1, <3>1, <3>2, PartImageWhole, ImageOfWhole
  <2>2. CASE ~Whole'
    BY <1>2, <2>2 DEF PartImage
  <2>3. QED
    BY <2>1, <2>2
<1>3. QED
  BY <1>1, <1>2

\* With CopyUndisturbed the calls of the update itself do not fail.
LEMMA CallsWork ==
  ASSUME CopyUndisturbed, TypeInv, UpdateInv, StartInv, ReplaceInv
  PROVE  /\ Quiet
         /\ \A k \in {"stat", "open", "header", "erase", "seek", "read", "partial", "write",
                      "close"} : ~Adverse(k)
         /\ ~WriteFails /\ ~ShortRead
<1>1. Quiet /\ "partial" \notin seen
  BY DEF CopyUndisturbed, ReplaceInv, Quiet, UpdateStopped, UpdateUnreadable
<1>2. \A k \in {"stat", "open", "header", "erase", "seek", "read", "partial", "write",
                "close"} : ~Adverse(k)
  BY DEF CopyUndisturbed, Adverse
<1>3. ~WriteFails
  <2>1. SUFFICES ASSUME WriteFails PROVE FALSE
    OBVIOUS
  <2>2. pc = "copy" /\ offset < ImageLen[hdr] /\ ~WriteAccepted(RoundUp(Unread))
    BY <1>2, <2>1 DEF WriteFails, ReadReturns
  <2>3. QED
    BY <1>1, <2>2, WholeReadAccepted DEF StartInv
<1>4. ~ShortRead
  BY <1>2, CopyReads DEF ShortRead
<1>5. QED
  BY <1>1, <1>2, <1>3, <1>4

LEMMA SeenKinds ==
  ASSUME TypeOK, [Next]_vars, seen \subseteq Fault
  PROVE  seen' \subseteq Fault
<1>1. Works => seen' \subseteq Fault
  BY DEF Works
<1>2. \A k \in FaultKind : Adverse(k) => seen' \subseteq Fault
  BY DEF Adverse
<1>3. QED
  BY <1>1, <1>2
     DEF Next, LoaderStep, SketchStep, OpenArea, StatUpdate, OpenUpdate, AcceptUpdate,
         RejectUpdate, EraseArea, SeekStart, CopyChunk, WriteFails, ShortRead, CopyDone,
         CleanUp, ReadHeader, StartSketch, BeginDownload, DownloadMore, AbortDownload,
         FinishDownload, MarkReady, StartOta, Reset, PowerCut, ReadReturns, FaultKind, vars

\* A chunk that reaches the partition in part or whole keeps the first byte.
LEMMA CopyKeepsFirstByte ==
  ASSUME TypeInv, UpdateInv, ReplaceInv, pc = "copy",
         NEW n \in 1 .. Unread, NEW k \in Nat, part' = Programmed(n, RoundUp(n), k)
  PROVE  part'[0] \in {Blank, <<hdr, 0>>}
<1>1. n \in Nat \ {0} /\ RoundUp(n) \in Nat
  BY RoundUpGrows
<1>2. part[0] \in {Blank, <<hdr, 0>>}
  BY DEF ReplaceInv
<1>3. QED
  BY <1>1, <1>2, FirstByteKept

LEMMA ReplaceInvStep ==
  ASSUME CopyUndisturbed
  PROVE  TypeInv /\ UpdateInv /\ StartInv /\ ReplaceInv /\ [Next]_vars => ReplaceInv'
<1> SUFFICES ASSUME TypeInv, UpdateInv, StartInv, ReplaceInv, [Next]_vars PROVE ReplaceInv'
  OBVIOUS
<1>a. TypeOK /\ Present
  BY DEF TypeInv
<1>b. seen' \subseteq Fault
  BY <1>a, SeenKinds DEF ReplaceInv
<1>c. ASSUME UNCHANGED update, pc' \notin {"ready", "cleanup", "header", "start", "seek", "copy"}
      PROVE  ReplaceInv'
  BY <1>b, <1>c DEF ReplaceInv
<1>1. CASE \/ \E m \in Image : BeginDownload(m)
           \/ DownloadMore \/ AbortDownload \/ StartOta \/ OpenArea \/ AcceptUpdate
           \/ PowerCut \/ Reset
  BY <1>c, <1>1
     DEF BeginDownload, DownloadMore, AbortDownload, StartOta, OpenArea, AcceptUpdate,
         PowerCut, Reset, Boot
<1>2. CASE FinishDownload
  BY <1>b, <1>2, CallsWork DEF FinishDownload, ReplaceInv
<1>3. CASE MarkReady
  BY <1>b, <1>3 DEF MarkReady, ReplaceInv
<1>4. CASE StatUpdate
  <2>1. UNCHANGED update /\ (pc' = "open" \/ (pc' = "header" /\ update = NoFile))
    BY <1>4, CallsWork DEF StatUpdate
  <2>2. CASE pc' = "open"
    BY <1>c, <2>1, <2>2
  <2>3. CASE pc' = "header" /\ update' = NoFile
    BY <1>b, <2>3 DEF ReplaceInv, Pending
  <2>4. QED
    BY <2>1, <2>2, <2>3
<1>5. CASE OpenUpdate
  BY <1>c, <1>5, CallsWork DEF OpenUpdate
<1>6. CASE RejectUpdate
  BY <1>b, <1>6 DEF RejectUpdate, ReplaceInv
<1>7. CASE EraseArea
  <2>1. pc' = "seek" /\ part'[0] = Blank /\ UNCHANGED update
    BY <1>7, CallsWork DEF EraseArea, AllBlank, Addr
  <2>2. QED
    BY <1>b, <2>1 DEF ReplaceInv
<1>8. CASE SeekStart
  BY <1>b, <1>8, CallsWork DEF SeekStart, ReplaceInv
<1>9. CASE CopyChunk
  <2>1. PICK n \in 1 .. Unread : part' = Programmed(n, RoundUp(n), RoundUp(n))
    BY <1>9 DEF CopyChunk
  <2>2. RoundUp(n) \in Nat
    BY RoundUpGrows
  <2>3. /\ part'[0] \in {Blank, <<hdr', 0>>}
        /\ pc' = "copy" /\ UNCHANGED update
    BY <1>9, <2>1, <2>2, CopyKeepsFirstByte DEF CopyChunk
  <2>4. QED
    BY <1>b, <2>3 DEF ReplaceInv
<1>10. CASE WriteFails \/ ShortRead
  BY <1>10, CallsWork
<1>11. CASE CopyDone
  BY <1>b, <1>11 DEF CopyDone, ReplaceInv
<1>12. CASE CleanUp
  <2>1. pc = "cleanup" /\ delete /\ pc' = "header" /\ UNCHANGED part
    BY <1>12 DEF CleanUp, ReplaceInv
  <2>2. update' = NoFile \/ UNCHANGED update
    BY <1>12 DEF CleanUp
  <2>3. CASE update' = NoFile
    BY <1>b, <2>1, <2>3 DEF ReplaceInv, Pending
  <2>4. CASE UNCHANGED update
    <3>1. Pending => Intact(update.img)
      BY <2>1, CallsWork DEF UpdateInv, Quiet, Pending
    <3>2. Pending' => Intact(update.img)'
      BY <2>1, <2>4, <3>1 DEF Pending, Installable, Intact, Holds
    <3>3. QED
      BY <1>b, <2>1, <2>4, <3>2 DEF ReplaceInv
  <2>5. QED
    BY <2>2, <2>3, <2>4
<1>13. CASE ReadHeader
  <2>1. pc = "header" /\ UNCHANGED <<part, update>> /\ pc' \in {"start", "halted"}
    BY <1>13 DEF ReadHeader
  <2>2. Pending' => Intact(update.img)'
    BY <2>1 DEF ReplaceInv, Pending, Installable, Intact, Holds
  <2>3. QED
    BY <1>b, <2>1, <2>2 DEF ReplaceInv
<1>14. CASE StartSketch
  BY <1>c, <1>14 DEF StartSketch, Locals
<1>15. CASE UNCHANGED vars
  <2>1. (Pending => Intact(update.img)) => (Pending' => Intact(update.img)')
    BY <1>15 DEF vars, Pending, Installable, Intact, Holds
  <2>2. QED
    BY <1>15, <2>1 DEF vars, ReplaceInv
<1>16. QED
  BY <1>1, <1>2, <1>3, <1>4, <1>5, <1>6, <1>7, <1>8, <1>9, <1>10, <1>11, <1>12, <1>13, <1>14,
     <1>15 DEF Next, LoaderStep, SketchStep

-----------------------------------------------------------------------------
(* The steps of the update are steps of the replacement *)

Offered == IF update = NoFile THEN NoImage ELSE update.img
Running == IF pc \in SketchPc \union {"truncated"} THEN PartImage ELSE NoImage
Acceptable == {m \in Bootable : ImageLen[m] <= FileLen[m] /\ HeaderLen <= FileLen[m]}

LEMMA Stutters ==
  ASSUME PartImage' = PartImage, Offered' = Offered, Running' = Running
  PROVE  UNCHANGED Atomic!vars
BY DEF Atomic!vars, Offered, Running

\* A step that leaves flash and file alone and stays on one side of the start.
LEMMA SameSide ==
  ASSUME UNCHANGED <<part, update>>,
         pc \in SketchPc \union {"truncated"} <=> pc' \in SketchPc \union {"truncated"}
  PROVE  UNCHANGED Atomic!vars
<1>1. PartImage' = PartImage
  BY PartImageStays
<1>2. QED
  BY <1>1, Stutters DEF Offered, Running

\* What is installed is what was offered; a stopped sketch stays stopped.
LEMMA Installs ==
  ASSUME update # NoFile, UNCHANGED update, update.img \in Acceptable,
         PartImage' = update.img,
         pc \notin SketchPc \union {"truncated"}, pc' \notin SketchPc \union {"truncated"}
  PROVE  Atomic!Next
<1>1. Atomic!Install
  BY DEF Atomic!Install, Acceptable
<1>2. QED
  BY <1>1 DEF Atomic!Next

LEMMA ReplaceStep ==
  ASSUME CopyUndisturbed, TypeInv, UpdateInv, StartInv, ReplaceInv, ReplaceInv', [Next]_vars
  PROVE  [Atomic!Next]_(Atomic!vars)
<1>a. TypeOK /\ Present
  BY DEF TypeInv
<1>b. pc # "truncated"
  BY CallsWork DEF StartInv, StartsWhole, Quiet
<1>c. Pending => update # NoFile /\ update.img \in Image /\ update.img \in Acceptable
  BY <1>a DEF Pending, ReplaceInv, Installable, Acceptable, Bootable, TypeOK, File
<1>d. Whole => PartImage \in Bootable /\ PartImage # NoImage
  BY PartImageWhole DEF Bootable
<1>e. pc \in SketchPc => Whole /\ Running = PartImage
  BY DEF UpdateInv, Running
<1>1. CASE \/ \E m \in Image : BeginDownload(m)
           \/ DownloadMore \/ AbortDownload \/ FinishDownload
  BY <1>1, SameSide
     DEF BeginDownload, DownloadMore, AbortDownload, FinishDownload, SketchPc
<1>2. CASE \/ OpenArea \/ StatUpdate \/ OpenUpdate \/ AcceptUpdate \/ RejectUpdate
           \/ SeekStart \/ CopyDone \/ ReadHeader
  BY <1>2, SameSide
     DEF OpenArea, StatUpdate, OpenUpdate, AcceptUpdate, RejectUpdate, SeekStart, CopyDone,
         ReadHeader, SketchPc
<1>3. CASE MarkReady
  <2>1. CASE pc' = "sketch" /\ UNCHANGED <<temp, update>>
    BY <1>3, <2>1, SameSide DEF MarkReady, SketchPc
  <2>2. CASE update' = temp /\ pc' = "reboot"
    <3>1. temp \in File /\ temp # NoFile /\ temp.img \in Image
      BY <1>a, <1>3 DEF MarkReady, TypeOK, Present, File
    <3>2. pc \in SketchPc /\ pc' \in SketchPc /\ UNCHANGED part
      BY <1>3, <2>2 DEF MarkReady, SketchPc
    <3>3. PartImage' = PartImage
      BY <1>e, <3>2, PartImageStays
    <3>4. Running # NoImage /\ Running' = Running /\ Offered' = temp.img
      BY <1>d, <1>e, <2>2, <3>1, <3>2, <3>3 DEF Running, Offered
    <3>5. Atomic!Offer(temp.img)
      BY <3>3, <3>4 DEF Atomic!Offer, Running, Offered
    <3>6. QED
      BY <3>1, <3>5 DEF Atomic!Next
  <2>3. QED
    BY <1>3, <2>1, <2>2 DEF MarkReady
<1>4. ASSUME UNCHANGED <<part, update>>, pc \in SketchPc, pc' = "loader"
      PROVE  Atomic!Next
  <2>1. PartImage' = PartImage
    BY <1>4, PartImageStays
  <2>2. Running # NoImage /\ Running' = NoImage /\ Offered' = Offered
    BY <1>d, <1>e, <1>4 DEF Running, Offered, SketchPc
  <2>3. Atomic!Stop
    BY <2>1, <2>2 DEF Atomic!Stop, Running, Offered
  <2>4. QED
    BY <2>3 DEF Atomic!Next
<1>5. CASE StartOta
  BY <1>4, <1>5 DEF StartOta, Boot, SketchPc
<1>6. CASE Reset
  <2>1. CASE pc = "sketch"
    BY <1>4, <1>6, <2>1 DEF Reset, Boot, SketchPc
  <2>2. CASE pc = "halted"
    BY <1>6, <2>2, SameSide DEF Reset, Boot, SketchPc
  <2>3. QED
    BY <1>b, <1>6, <2>1, <2>2 DEF Reset, StoppedPc
<1>7. CASE EraseArea
  <2>1. /\ pc = "erase" /\ pc' = "seek" /\ UNCHANGED update /\ part'[0] = Blank
    BY <1>7, CallsWork DEF EraseArea, AllBlank, Addr
  <2>2. Pending
    BY <2>1 DEF UpdateInv
  <2>3. PartImage' = update.img
    BY <1>c, <2>1, <2>2, PartImageOffered
  <2>4. QED
    BY <1>c, <2>1, <2>2, <2>3, Installs DEF SketchPc
<1>8. ASSUME pc = "copy", UNCHANGED update, part'[0] \in {Blank, <<hdr, 0>>},
             pc' \in {"copy", "loader"}
      PROVE  UNCHANGED Atomic!vars
  <2>1. update # NoFile /\ hdr = update.img /\ part[0] \in {Blank, <<hdr, 0>>}
    BY <1>c, <1>8 DEF UpdateInv, ReplaceInv
  <2>2. PartImage = update.img /\ PartImage' = update.img
    BY <1>8, <2>1, PartImageOffered
  <2>3. Running' = Running /\ Offered' = Offered
    BY <1>8 DEF Running, Offered, SketchPc
  <2>4. QED
    BY <2>2, <2>3, Stutters
<1>9. CASE CopyChunk
  <2>1. PICK n \in 1 .. Unread : part' = Programmed(n, RoundUp(n), RoundUp(n))
    BY <1>9 DEF CopyChunk
  <2>2. part'[0] \in {Blank, <<hdr, 0>>}
    BY <1>9, <2>1, RoundUpGrows, CopyKeepsFirstByte DEF CopyChunk
  <2>3. QED
    BY <1>8, <1>9, <2>2 DEF CopyChunk
<1>10. CASE WriteFails \/ ShortRead
  BY <1>10, CallsWork
<1>11. CASE CleanUp
  <2>1. /\ pc = "cleanup" /\ pc' = "header" /\ UNCHANGED part /\ delete
        /\ update' = NoFile \/ UNCHANGED update
    BY <1>11 DEF CleanUp, ReplaceInv
  \* The file stays when it was not there, or when it cannot be removed.
  <2>2. Whole
    BY <2>1, CallsWork DEF StartInv
  <2>3. PartImage' = PartImage
    BY <2>1, <2>2, PartImageStays
  <2>4. Running = NoImage /\ Running' = NoImage
    BY <2>1 DEF Running, SketchPc
  <2>5. CASE UNCHANGED update
    BY <2>1, <2>5, SameSide DEF SketchPc
  <2>6. CASE update # NoFile /\ update' = NoFile
    <3>1. update \in File /\ update.img \in Image /\ Offered = update.img /\ Offered' = NoImage
      BY <1>a, <2>1, <2>6 DEF Offered, TypeOK, File
    <3>2. ASSUME update.img \in Acceptable PROVE PartImage = update.img
      <4>1. Installable(update) /\ update.img \in Bootable
        BY <2>6, <3>1, <3>2 DEF Installable, Acceptable, Bootable, ReplaceInv
      <4>2. Intact(update.img)
        BY <2>1, <4>1, CallsWork DEF UpdateInv, Quiet
      <4>3. QED
        BY <4>1, <4>2, PartImageWhole
    <3>3. Offered # NoImage
      BY <3>1
    <3>4. Atomic!Dismiss
      BY <2>3, <2>4, <3>1, <3>2, <3>3 DEF Atomic!Dismiss, Running, Offered, Acceptable
    <3>5. QED
      BY <3>4 DEF Atomic!Next
  <2>7. QED
    BY <2>1, <2>5, <2>6
<1>12. CASE StartSketch
  <2>1. /\ pc = "start" /\ UNCHANGED <<part, update>>
        /\ pc' \in {"sketch", "halted"}
    BY <1>12, CallsWork DEF StartSketch, Locals, ReplaceInv, StartInv
  <2>2. PartImage' = PartImage
    BY <2>1, PartImageStays
  <2>3. CASE pc' = "sketch"
    <3>1. Running = NoImage /\ Running' = PartImage /\ Offered' = Offered
      BY <2>1, <2>2, <2>3 DEF Running, Offered, SketchPc
    <3>2. ASSUME Offered \in Acceptable PROVE Offered = PartImage
      <4>1. update # NoFile /\ Offered = update.img /\ update.img \in Bootable
        BY <3>2 DEF Offered, Acceptable, Bootable
      <4>2. Pending
        BY <3>2, <4>1 DEF Pending, Installable, Acceptable, Bootable, ReplaceInv
      <4>3. Intact(update.img)
        BY <2>1, <4>2 DEF ReplaceInv
      <4>4. QED
        BY <4>1, <4>3, PartImageWhole
    <3>3. Atomic!Start
      BY <2>2, <3>1, <3>2 DEF Atomic!Start, Running, Offered, Acceptable
    <3>4. QED
      BY <3>3 DEF Atomic!Next
  <2>4. CASE pc' = "halted"
    BY <2>1, <2>4, SameSide DEF SketchPc
  <2>5. QED
    BY <2>1, <2>3, <2>4
<1>13. CASE PowerCut
  <2>1. pc' = "loader" /\ UNCHANGED update
    BY <1>13 DEF PowerCut, Boot
  <2>2. CASE UNCHANGED part
    <3>1. CASE pc \in SketchPc
      BY <1>4, <2>1, <2>2, <3>1
    <3>2. CASE pc \notin SketchPc
      BY <1>b, <2>1, <2>2, <3>2, SameSide DEF SketchPc
    <3>3. QED
      BY <3>1, <3>2
  <2>3. ASSUME pc = "erase", NEW k \in Addr, part' = Erased(k)
        PROVE  [Atomic!Next]_(Atomic!vars)
    <3>1. CASE k = 0
      <4>1. part \in [Addr -> Cell] /\ \A i \in Addr : part'[i] = part[i]
        BY <1>a, <2>3, <3>1 DEF Erased, TypeOK, Addr
      <4>2. part' = part
        BY <2>3, <4>1 DEF Erased
      <4>3. QED
        BY <2>2, <4>2
    <3>2. CASE k > 0
      <4>1. part'[0] = Blank /\ Pending
        BY <2>3, <3>2 DEF Erased, Addr, UpdateInv
      <4>2. PartImage' = update.img
        BY <1>c, <2>1, <4>1, PartImageOffered
      <4>3. QED
        BY <1>c, <2>1, <2>3, <4>1, <4>2, Installs DEF SketchPc
    <3>3. QED
      BY <2>3, <3>1, <3>2 DEF Addr
  <2>4. ASSUME pc = "copy", NEW n \in 1 .. Unread, NEW k \in Addr,
               part' = Programmed(n, RoundUp(n), k)
        PROVE  UNCHANGED Atomic!vars
    <3>1. k \in Nat
      BY DEF Addr
    <3>2. part'[0] \in {Blank, <<hdr, 0>>}
      BY <2>4, <3>1, CopyKeepsFirstByte
    <3>3. QED
      BY <1>8, <2>1, <2>4, <3>2
  <2>5. QED
    BY <1>13, <2>2, <2>3, <2>4 DEF PowerCut
<1>14. CASE UNCHANGED vars
  BY <1>14, SameSide DEF vars
<1>15. QED
  BY <1>1, <1>2, <1>3, <1>5, <1>6, <1>7, <1>9, <1>10, <1>11, <1>12, <1>13, <1>14
     DEF Next, LoaderStep, SketchStep

\* When the power is all that fails, with the calls before the update and after
\* the copy, the removal of the file among them, a user cannot tell the
\* byte-wise copy from a single step that replaces one whole sketch by another:
\* the update implements AtomicSketch.
THEOREM Replacement ==
  ASSUME CopyUndisturbed
  PROVE  Spec => AtomicSpec
<1>1. Init => Atomic!Init
  <2> SUFFICES ASSUME Init PROVE Atomic!Init
    OBVIOUS
  <2>1. PICK m \in Bootable : Intact(m)
    BY DEF Init, Intact, Holds, Bootable, Addr
  <2>2. PartImage = m /\ m \in Image
    BY <2>1, PartImageWhole DEF Bootable
  <2>3. QED
    BY <2>2 DEF Init, Atomic!Init, SketchPc
<1>2. Init => StartInv /\ ReplaceInv
  BY DEF Init, StartInv, Aligned, StartsWhole, ReplaceInv
<1>3. TypeInv /\ UpdateInv /\ StartInv /\ ReplaceInv /\ [Next]_vars => ReplaceInv'
  BY ReplaceInvStep
<1>4. TypeInv /\ UpdateInv /\ StartInv /\ ReplaceInv /\ ReplaceInv' /\ [Next]_vars
        => [Atomic!Next]_(Atomic!vars)
  BY ReplaceStep
<1>5. QED
  BY <1>1, <1>2, <1>3, <1>4, StartInvStep, Updating, PTL DEF Spec, AtomicSpec, Atomic!Spec


-----------------------------------------------------------------------------
(* Every boot ends *)

\* The order of the loader's steps.
Rank == [loader |-> 9, stat |-> 8, open |-> 7, validate |-> 6, erase |-> 5, seek |-> 4,
         copy |-> 3, cleanup |-> 2, header |-> 1, start |-> 0]

\* What the loader has to do at most: the steps ahead and the bytes to copy.
ToGo ==
  Rank[pc] + IF pc \in {"cleanup", "header", "start"} THEN 0
             ELSE IF pc = "copy" THEN ImageLen[hdr] - offset
             ELSE PartSize

LoaderBounded == pc \in LoaderPc => ToGo \in 0 .. PartSize + 9

\* A step of the loader leaves it less to do or is its last, whichever calls
\* fail and however short the reads are: no error sends it round a loop.
LoaderAdvances == [][LoaderStep /\ pc' \in LoaderPc => ToGo' < ToGo]_vars

LEMMA ToGoBounded ==
  ASSUME TypeInv, UpdateInv
  PROVE  LoaderBounded
<1> SUFFICES ASSUME pc \in LoaderPc PROVE ToGo \in 0 .. PartSize + 9
  BY DEF LoaderBounded
<1>1. CASE pc = "copy"
  <2>1. hdr \in Image /\ offset \in Nat /\ ImageLen[hdr] \in Nat
    BY <1>1 DEF TypeInv, TypeOK, Present
  <2>2. offset <= ImageLen[hdr] /\ ImageLen[hdr] <= PartSize
    BY <1>1 DEF UpdateInv, Pending, Installable
  <2>3. ToGo = 3 + (ImageLen[hdr] - offset)
    BY <1>1 DEF ToGo, Rank
  <2>4. QED
    BY <2>1, <2>2, <2>3
<1>2. CASE pc \in {"cleanup", "header", "start"}
  BY <1>2 DEF ToGo, Rank
<1>3. CASE pc \in {"loader", "stat", "open", "validate", "erase", "seek"}
  BY <1>3 DEF ToGo, Rank
<1>4. QED
  BY <1>1, <1>2, <1>3 DEF LoaderPc

LEMMA LoaderStepAdvances ==
  ASSUME TypeInv, UpdateInv, LoaderStep, pc' \in LoaderPc
  PROVE  ToGo' < ToGo
<1>1. CASE OpenArea \/ StatUpdate \/ OpenUpdate \/ AcceptUpdate \/ RejectUpdate \/ EraseArea
           \/ CleanUp \/ ReadHeader \/ StartSketch
  BY <1>1 DEF OpenArea, StatUpdate, OpenUpdate, AcceptUpdate, RejectUpdate, EraseArea, CleanUp,
              ReadHeader, StartSketch, LoaderPc, ToGo, Rank
<1>2. CASE SeekStart
  <2>1. pc = "seek" /\ UNCHANGED <<hdr, offset>> /\ pc' \in {"copy", "cleanup"}
    BY <1>2 DEF SeekStart
  <2>2. /\ hdr \in Image /\ ImageLen[hdr] \in Nat /\ offset = 0
        /\ ImageLen[hdr] <= PartSize
    BY <2>1 DEF TypeInv, TypeOK, Present, UpdateInv, Pending, Installable
  <2>3. ToGo = 4 + PartSize
    BY <2>1 DEF ToGo, Rank
  <2>4. ToGo' = 2 \/ ToGo' = 3 + (ImageLen[hdr] - offset)
    BY <2>1 DEF ToGo, Rank
  <2>5. QED
    BY <2>2, <2>3, <2>4
<1>3. CASE CopyChunk
  <2>1. pc = "copy" /\ pc' = "copy" /\ hdr' = hdr /\ offset < ImageLen[hdr]
    BY <1>3 DEF CopyChunk
  <2>2. PICK n \in 1 .. Unread : offset' = offset + n
    BY <1>3 DEF CopyChunk
  <2>3. hdr \in Image /\ offset \in Nat /\ ImageLen[hdr] \in Nat /\ Unread \in Nat
    BY <2>1, CopyReads DEF TypeInv, TypeOK, Present
  <2>4. ToGo = 3 + (ImageLen[hdr] - offset) /\ ToGo' = 3 + (ImageLen[hdr] - offset')
    BY <2>1 DEF ToGo, Rank
  <2>5. QED
    BY <2>2, <2>3, <2>4
<1>4. CASE WriteFails \/ ShortRead \/ CopyDone
  <2>1. pc = "copy" /\ pc' = "cleanup"
    BY <1>4 DEF WriteFails, ShortRead, CopyDone
  <2>2. ToGo' = 2 /\ ToGo = 3 + (ImageLen[hdr] - offset)
    BY <2>1 DEF ToGo, Rank
  <2>3. /\ hdr \in Image /\ offset \in Nat /\ ImageLen[hdr] \in Nat
        /\ offset <= ImageLen[hdr]
    BY <2>1 DEF TypeInv, TypeOK, Present, UpdateInv
  <2>4. QED
    BY <2>2, <2>3
<1>5. QED
  BY <1>1, <1>2, <1>3, <1>4 DEF LoaderStep

\* A boot is over after at most PartSize + 10 steps of the loader, whatever
\* the partition and the files hold and whichever calls fail.
THEOREM BootsEnd == Spec => []LoaderBounded /\ LoaderAdvances
<1>1. TypeInv /\ UpdateInv => LoaderBounded
  BY ToGoBounded
<1>2. TypeInv /\ UpdateInv /\ [Next]_vars => [LoaderStep /\ pc' \in LoaderPc => ToGo' < ToGo]_vars
  BY LoaderStepAdvances
<1>3. QED
  BY <1>1, <1>2, Updating, PTL DEF LoaderAdvances, Spec
=============================================================================
