------------------------ MODULE AudioCaptureDataPipe ------------------------
(***************************************************************************)
(* The pipe that carries a copy of what was mixed to the visualizers       *)
(* (AudioCaptureDataPipe.cpp): filled by the mixer thread, emptied by the  *)
(* handler thread when it polls the audio system.  The number of blocks in *)
(* each queue says all there is to say of them.                            *)
(***************************************************************************)
EXTENDS Naturals

setupCaptureQueues(num_blocks) == [producer |-> num_blocks, consumer |-> 0]

CanCapture(pipe) == pipe.producer > 0
lockCaptureWrite(pipe) == [pipe EXCEPT !.producer = @ - 1]
unlockCaptureWrite(pipe) == [pipe EXCEPT !.consumer = @ + 1]

isCapturedDataAvailable(pipe) == pipe.consumer > 0
lockCaptureRead(pipe) == [pipe EXCEPT !.consumer = @ - 1]
unlockCaptureRead(pipe) == [pipe EXCEPT !.producer = @ + 1]
=============================================================================
