---------------------------- MODULE HQVisualizer ----------------------------
(***************************************************************************)
(* OpenSLMediaPlayerHQVisualizer.cpp: the visualizer without the stock     *)
(* API's limits.  Its control is the same; it has a window function, no    *)
(* modes, and nothing is read from the caller's thread.                    *)
(***************************************************************************)
EXTENDS EffectModule

V == INSTANCE Visualizer

CAPTURE_SIZES == {128, 256, 512, 1024, 2048, 4096, 8192, 16384, 32768}
CAPTURE_RATES == 100 .. 60000
WINDOW_FUNCTIONS == 0 .. 4
NUM_CHANNELS == 2

Getters == {"getEnabled", "getCaptureSize", "getSamplingRate", "getNumChannels", "getWindowFunction"}
Listeners == {"setDataCaptureListener", "setInternalPeriodicCaptureThreadEventListener"}
Setters == {"setEnabled", "setCaptureSize", "setWindowFunction"} \cup Listeners

HQVisualizerStatus ==
  [enabled |-> FALSE, capture_size |-> 1024, window_type |-> 0,
   get_waveform_fft_state |-> V!PackWaveFftStatus(FALSE, NULL)]
ClientInfo == [listeners |-> {}, data_wanted |-> FALSE]
preparedForCapturing(info) == info.data_wanted /\ info.listeners # {}

wantsModule(options) == "hqvisualizer" \in options

Accepts(what, arg) ==
  /\ what \in Getters => arg # NULL
  /\ what \in Listeners /\ arg # NULL => arg \in CAPTURE_RATES
  /\ what = "setWindowFunction" => arg \in WINDOW_FUNCTIONS
posting(has_module, what, arg) ==
  IF ~has_module THEN "dead_object" ELSE IF Accepts(what, arg) THEN "posted" ELSE "illegal_argument"

getExtensionTraits(status) == IF status.enabled THEN {"capture_audio_data"} ELSE {}
onAttach(status, client) == V!onAttach(status, client)
afterDetach(status, client, active) == V!afterDetach(status, client, active)

StartsThread(own, what, arg, is_active) == V!StartsThread(own, what, arg, is_active)
StopsThread(own, what, arg, is_active) == V!StopsThread(own, what, arg, is_active)
enabledChanged(status, enabled, client) == V!enabledChanged(status, enabled, client)

query(status, what) ==
  CASE what = "getEnabled"        -> status.enabled
    [] what = "getCaptureSize"    -> status.capture_size
    [] what = "getNumChannels"    -> NUM_CHANNELS
    [] what = "getWindowFunction" -> status.window_type
    [] OTHER                      -> NULL       \* a rate

setCaptureSize(own, size) ==
  V!WhenDisabled(own, IF size \in CAPTURE_SIZES THEN Success([own EXCEPT !.status.capture_size = size], NULL)
                      ELSE Answered(own, "illegal_argument", NULL))

change(own, client, what, arg) ==
  IF what = "setCaptureSize" THEN setCaptureSize(own, arg) ELSE V!change(own, client, what, arg)

\* the window is refused to a client without control, who is told that it was set
setWindowFunction(own, window_type, is_active) ==
  Success(IF is_active THEN [own EXCEPT !.status.window_type = window_type] ELSE own, NULL)

processMessage(own, client, what, arg, is_active) ==
  CASE what \in Getters           -> Success(own, query(own.status, what))
    [] what = "setWindowFunction" -> setWindowFunction(own, arg, is_active)
    [] OTHER                      -> IF is_active THEN change(own, client, what, arg)
                                     ELSE Answered(own, "control_lost", NULL)
=============================================================================
