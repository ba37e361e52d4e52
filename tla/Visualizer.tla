----------------------------- MODULE Visualizer -----------------------------
(***************************************************************************)
(* OpenSLMediaPlayerVisualizer.cpp: the module and its clients.  `own' is  *)
(* what a message works on: the module's status and the client info of the *)
(* handle that sent it.  Rates are in milli hertz; a listener is given as  *)
(* its rate, NULL stands for none (or for one that asks for no data).      *)
(***************************************************************************)
EXTENDS EffectModule

CAPTURE_SIZES == {128, 256, 512, 1024}
DEFAULT_CAPTURE_DATA_SIZE == 1024
CAPTURE_RATES == 100 .. 20000
MODES == {0, 1}        \* of scaling (normalized, as played) and of measurement (none, peak and RMS)

Getters == {"getEnabled", "getCaptureSize", "getMeasurementPeakRms", "getSamplingRate", "getMeasurementMode",
            "getScalingMode"}
Listeners == {"setDataCaptureListener", "setInternalPeriodicCaptureThreadEventListener"}
Setters == {"setEnabled", "setCaptureSize", "setMeasurementMode", "setScalingMode"} \cup Listeners
Direct == {"getFft", "getWaveForm"}       \* no message is posted

PackWaveFftStatus(enabled, client) == [enabled |-> enabled, client |-> client]
VisualizerStatus ==
  [enabled |-> FALSE, capture_size |-> DEFAULT_CAPTURE_DATA_SIZE, measurement_mode |-> 0, scaling_mode |-> 0,
   get_waveform_fft_state |-> PackWaveFftStatus(FALSE, NULL)]
ClientInfo == [listeners |-> {}, data_wanted |-> FALSE]
preparedForCapturing(info) == info.data_wanted /\ info.listeners # {}

wantsModule(options) == "visualizer" \in options

getWaveForm(status, client, size) ==
  IF size # status.capture_size THEN "illegal_argument"
  ELSE IF ~status.get_waveform_fft_state.enabled THEN "illegal_state"
  ELSE IF status.get_waveform_fft_state.client # client THEN "control_lost"
  ELSE "success"

Accepts(what, arg) ==
  /\ what \in Getters => arg # NULL
  /\ what \in Listeners /\ arg # NULL => arg \in CAPTURE_RATES
  /\ what \in {"setMeasurementMode", "setScalingMode"} => arg \in MODES
\* what a method of the handle does: two of them read the status from the caller's thread
posting(has_module, status, client, what, arg) ==
  IF ~has_module THEN "dead_object"
  ELSE IF what \in Direct THEN getWaveForm(status, client, arg)
  ELSE IF Accepts(what, arg) THEN "posted" ELSE "illegal_argument"

getExtensionTraits(status) == IF status.enabled THEN {"capture_audio_data"} ELSE {}

\* a new client gets what the last one was allowed to read
onAttach(status, client) == [status EXCEPT !.get_waveform_fft_state = PackWaveFftStatus(status.enabled, client)]
\* mutant: what the client that leaves could read stays its own
afterDetach_Keeps(status, client, active) == status
\* `active' is the client that is active when `client' is gone
afterDetach(status, client, active) ==
  IF status.get_waveform_fft_state.client # client THEN status
  ELSE [status EXCEPT !.get_waveform_fft_state = PackWaveFftStatus(status.enabled, active)]

\* when the module needs its thread started, or stopped, before it can go on
StartsThread(own, what, arg, is_active) ==
  what = "setEnabled" /\ is_active /\ arg /\ ~own.status.enabled /\ preparedForCapturing(own.info)
StopsThread(own, what, arg, is_active) == what = "setEnabled" /\ is_active /\ ~arg /\ own.status.enabled
enabledChanged(status, enabled, client) ==
  [status EXCEPT !.enabled = enabled, !.get_waveform_fft_state = PackWaveFftStatus(enabled, client)]

query(status, what) ==
  CASE what = "getEnabled"         -> status.enabled
    [] what = "getCaptureSize"     -> status.capture_size
    [] what = "getMeasurementMode" -> status.measurement_mode
    [] what = "getScalingMode"     -> status.scaling_mode
    [] OTHER                       -> NULL      \* a measurement, a rate
\* the peak is known only in one of the two modes
answerQuery(own, what) ==
  IF what = "getMeasurementPeakRms" /\ own.status.measurement_mode = 0
    THEN Answered(own, "illegal_state", NULL)
    ELSE Success(own, query(own.status, what))

\* a client has two listeners and one rate
setListener(info, listener, rate) ==
  IF rate = NULL THEN [info EXCEPT !.listeners = @ \ {listener}, !.data_wanted = FALSE]
                 ELSE [info EXCEPT !.listeners = @ \cup {listener}, !.data_wanted = TRUE]

WhenDisabled(own, answer) == IF own.status.enabled THEN Answered(own, "illegal_state", NULL) ELSE answer
setCaptureSize(own, size) ==
  WhenDisabled(own, IF size \in CAPTURE_SIZES THEN Success([own EXCEPT !.status.capture_size = size], NULL)
                    ELSE Answered(own, "illegal_argument", NULL))

change(own, client, what, arg) ==
  CASE what = "setEnabled"         ->
         Success(IF own.status.enabled = arg THEN own
                 ELSE [own EXCEPT !.status = enabledChanged(@, arg, client)], NULL)
    [] what = "setCaptureSize"     -> setCaptureSize(own, arg)
    [] what = "setMeasurementMode" -> Success([own EXCEPT !.status.measurement_mode = arg], NULL)
    [] what = "setScalingMode"     -> Success([own EXCEPT !.status.scaling_mode = arg], NULL)
    [] what \in Listeners          -> WhenDisabled(own, Success([own EXCEPT !.info = setListener(@, what, arg)], NULL))

processMessage(own, client, what, arg, is_active) ==
  IF what \in Getters THEN answerQuery(own, what)
  ELSE IF is_active THEN change(own, client, what, arg)
  ELSE Answered(own, "control_lost", NULL)
=============================================================================
