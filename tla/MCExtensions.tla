---------------------------- MODULE MCExtensions ----------------------------
(* Extensions with a few arguments for every call. *)
EXTENDS Extensions

MCScenarios == {{"bassboost"}, {"virtualizer"}, {"equalizer"}, {"hqequalizer"}, {"preamp"},
                {"presetreverb"}, {"envreverb"}, {"presetreverb", "envreverb"},
                {"visualizer"}, {"hqvisualizer"}, {"visualizer", "hqvisualizer"}}

Symmetry == Permutations(Handles) \cup Permutations(Threads)

Everyones == {"hasControl", "setEnabled", "getProperties"}
MCAsked(kinds, kind) ==
  CASE kinds = PR!AuxEffects   -> {"setEnabled"}
    [] kinds = Visualizers     -> {"setEnabled"}
    [] kind = "bassboost"      -> Everyones \cup {"getEnabled", "setStrength", "setProperties"}
    [] kind = "virtualizer"    -> Everyones \cup {"getRoundedStrength", "setStrength"}
    [] kind = "equalizer"      -> Everyones \cup {"setBandLevel", "usePreset", "setProperties"}
    [] kind = "hqequalizer"    -> Everyones \cup {"getBandLevel", "setBandLevel", "usePreset", "setProperties"}
    [] kind = "preamp"         -> Everyones \cup {"getLevel", "setLevel", "setProperties"}
    [] kind = "presetreverb"   -> Everyones \cup {"setPreset", "setProperties"}
    [] kind = "envreverb"      -> Everyones \cup {"setParameter", "getParameter", "setProperties"}
    [] kind = "visualizer"     -> {"setEnabled", "setDataCaptureListener", "getWaveForm", "setCaptureSize"}
    [] kind = "hqvisualizer"   -> {"setEnabled", "setInternalPeriodicCaptureThreadEventListener", "setWindowFunction"}

EqSettings(preset, level) == [curPreset |-> preset, bandLevels |-> EQ!Flat(level)]
SmallRoom == [ER!MakeDefaultSettings EXCEPT !.RoomLevel = -1000]
Properties(kind) ==
  CASE kind \in {"bassboost", "virtualizer"} -> {400}
    [] kind \in {"equalizer", "hqequalizer"} -> {EqSettings(EQ!UNDEFINED, MaxLevel)}
    [] kind = "preamp"                       -> {5}
    [] kind = "presetreverb"                 -> {2}
    [] kind = "envreverb"                    -> {SmallRoom}

MCLegal(kind, what) ==
  CASE what = "setEnabled"    -> BOOLEAN
    [] what = "setProperties" -> Properties(kind)
    [] what = "setStrength"   -> {1000}
    [] what = "setBandLevel"  -> {[band |-> 0, level |-> MinLevel]}
    [] what = "usePreset"     -> {1}
    [] what = "setLevel"      -> {20}
    [] what = "setPreset"     -> {6}
    [] what = "getParameter"  -> {"DecayTime"}
    [] what = "setParameter"  -> {[parameter |-> "DecayTime", value |-> 7000]}
    [] what = "setCaptureSize" -> {128}
    [] what = "setDataCaptureListener" -> {NULL, 10000}
    [] what = "setInternalPeriodicCaptureThreadEventListener" -> {60000}
    [] what = "getWaveForm"   -> {1024}
    [] what = "setWindowFunction"  -> {4}
    [] OTHER                  -> {"somewhere"}

MCIllegal(kind, what) ==
  CASE what = "getProperties" -> {NULL}
    [] what = "setProperties" -> {NULL}
    [] what = "setStrength"   -> {1001}
    [] what = "setBandLevel"  -> {[band |-> NumBands, level |-> 0], [band |-> 0, level |-> MaxLevel + 1]}
    [] what = "usePreset"     -> {NumPresets, EQ!UNDEFINED}
    [] what = "setLevel"      -> {21, NaN}
    [] what = "setPreset"     -> {7}
    [] what = "setParameter"  -> {[parameter |-> "DecayTime", value |-> 99]}
    [] what = "setCaptureSize" -> {2048}
    [] OTHER                  -> {}
=============================================================================
