-------------------------- MODULE HQEqualizerProofs --------------------------
(***************************************************************************)
(* TLAPS proofs about HQEqualizer, for every number of bands, items and    *)
(* frames, every step and every millibel: the filters move towards the     *)
(* settings the mixer thread was told last and rest there; what is heard   *)
(* is off by no more than the moves that were not loaded, and changes by   *)
(* no more than the steps of a block and these.                            *)
(***************************************************************************)
EXTENDS HQEqualizer, TLAPS

USE BandsAssumption, LevelsAssumption, SizesAssumption

EqualizerSettings == [enabled : BOOLEAN, level : [Bands -> Int], updated : SUBSET (Bands \cup {Enabled})]
Filters == [target : Int, gain : Int, dirty : BOOLEAN, loaded : Int, pending : Nat, unloaded : Nat]

\* The types of what the properties are about.
TypeOK ==
  /\ impl \in Impls
  /\ request \in EqualizerSettings /\ current \in EqualizerSettings
  /\ requested \in Seq(EqualizerSettings)
  /\ mixer \in {"loop", "mix", "waiting"}
  /\ req_gain \in [Bands -> Int] /\ cur_gain \in [Bands -> Int]
  /\ filters \in [Bands -> Filters]
  /\ updating \subseteq Bands

-----------------------------------------------------------------------------
(* The settings on their way.  Each item tells all settings and which of   *)
(* them have changed since the item before; the mixer thread takes several *)
(* items at once, the last for the settings and all for the changes.       *)

Told(items) == UNION {items[i].updated : i \in DOMAIN items}
Newest(items) == IF items = <<>> THEN current ELSE Last(items)

\* where the settings differ from the old ones, a bit says so
Covers(bits, settings, old) ==
  /\ \A b \in Bands : b \notin bits => settings.level[b] = old.level[b]
  /\ Enabled \notin bits => settings.enabled = old.enabled

\* the target of a filter, when the bands have these gains
Target(gain, b) == IF impl = "flat" THEN gain[b] ELSE getCorrectedBandLevel(gain, b)

TakenInv ==
  /\ \A b \in Bands : req_gain[b] = millibel_to_decibel(current.level[b])
  /\ \A b \in Bands : cur_gain[b] = IF current.enabled THEN millibel_to_decibel(current.level[b]) ELSE 0
  /\ \A b \in Bands : filters[b].target = Target(cur_gain, b)
SettingsInv ==
  /\ Covers(Told(requested), Newest(requested), current)
  /\ Covers(request.updated, request, Newest(requested))
  /\ TakenInv

LEMMA Converted ==
  /\ \A level \in Int : millibel_to_decibel(level) \in Int
  /\ \A level \in Int : clamp(level) \in Int
  BY DEF millibel_to_decibel, clamp

LEMMA BandsTyped == Bands \subseteq Int
  BY DEF Bands

LEMMA CorrectedTyped ==
  ASSUME NEW gain \in [Bands -> Int], NEW b \in Bands
  PROVE  getCorrectedBandLevel(gain, b) \in Int
  <1>1. gain[b] \in Int /\ (b - 1 \in Bands => gain[b - 1] \in Int) /\ (b + 1 \in Bands => gain[b + 1] \in Int)
    OBVIOUS
  <1> DEFINE l == IF b - 1 \in Bands THEN gain[b - 1] ELSE 0
             r == IF b + 1 \in Bands THEN gain[b + 1] ELSE 0
  <1>2. l \in Int /\ r \in Int
    BY <1>1
  <1>3. getCorrectedBandLevel(gain, b) = gain[b] - (3 * (l + r)) \div 20
    BY DEF getCorrectedBandLevel
  <1> HIDE DEF l, r
  <1> QED  BY <1>1, <1>2, <1>3

\* what apply() does with settings that their bits cover
LEMMA ApplyKeeps ==
  ASSUME TypeOK, SettingsInv, NEW settings \in EqualizerSettings, NEW available,
         Covers(settings.updated, settings, Newest(requested)), apply(settings, available), UNCHANGED current
  PROVE  /\ request' \in EqualizerSettings /\ requested' \in Seq(EqualizerSettings)
         /\ Covers(Told(requested), Newest(requested), current)'
         /\ Covers(request.updated, request, Newest(requested))'
  <1>1. CASE settings.updated # {} /\ available > 0
    <2>1. request' = [settings EXCEPT !.updated = {}] /\ requested' = Append(requested, settings)
      BY <1>1 DEF apply
    <2>2. request' \in EqualizerSettings /\ request'.level = settings.level /\ request'.enabled = settings.enabled
      BY <2>1 DEF EqualizerSettings
    <2>3. requested' \in Seq(EqualizerSettings)
      BY <2>1 DEF TypeOK
    <2>4. Last(requested') = settings /\ requested' # <<>>
      BY <2>1 DEF Last, TypeOK
    <2>5. /\ settings.updated \subseteq Told(requested')
          /\ Told(requested) \subseteq Told(requested')
      <3>1. /\ Len(requested) \in Nat /\ DOMAIN requested = 1 .. Len(requested)
            /\ DOMAIN requested' = 1 .. Len(requested) + 1
            /\ \A i \in DOMAIN requested : requested'[i] = requested[i]
            /\ requested'[Len(requested) + 1] = settings
        BY <2>1 DEF TypeOK
      <3>2. Len(requested) + 1 \in DOMAIN requested' /\ DOMAIN requested \subseteq DOMAIN requested'
        BY <3>1
      <3> QED  BY <3>1, <3>2 DEF Told
    <2>6. Newest(requested)' = settings
      BY <2>4 DEF Newest
    <2>7. Covers(Told(requested'), settings, current)
      BY <2>5 DEF Covers, SettingsInv
    <2>8. Covers(request'.updated, request', settings)
      BY <2>2 DEF Covers
    <2> QED  BY <2>2, <2>3, <2>6, <2>7, <2>8 DEF Covers
  <1>2. CASE ~(settings.updated # {} /\ available > 0)
    <2>1. request' = settings /\ UNCHANGED requested
      BY <1>2 DEF apply
    <2> QED  BY <2>1 DEF TypeOK, SettingsInv, Covers, Told, Newest
  <1> QED  BY <1>1, <1>2

\* a call changes what it says it changes
LEMMA CallsCover ==
  ASSUME TypeOK, SettingsInv
  PROVE  /\ \A enabled \in BOOLEAN : LET s == [request EXCEPT !.enabled = enabled, !.updated = @ \cup {Enabled}]
                                     IN s \in EqualizerSettings /\ Covers(s.updated, s, Newest(requested))
         /\ \A band \in Bands, level \in Int :
              LET s == [request EXCEPT !.level[band] = level, !.updated = @ \cup {band}]
              IN s \in EqualizerSettings /\ Covers(s.updated, s, Newest(requested))
         /\ \A level \in Settings :
              LET s == [request EXCEPT !.level = level,
                                       !.updated = @ \cup {b \in Bands : request.level[b] # level[b]}]
              IN s \in EqualizerSettings /\ Covers(s.updated, s, Newest(requested))
  <1>1. request \in EqualizerSettings /\ Covers(request.updated, request, Newest(requested))
    BY DEF TypeOK, SettingsInv
  <1> DEFINE old == Newest(requested)
  <1> HIDE DEF old
  <1>2. ASSUME NEW enabled \in BOOLEAN
        PROVE  LET s == [request EXCEPT !.enabled = enabled, !.updated = @ \cup {Enabled}]
               IN s \in EqualizerSettings /\ Covers(s.updated, s, old)
    BY <1>1 DEF EqualizerSettings, Covers, old
  <1>3. ASSUME NEW band \in Bands, NEW level \in Int
        PROVE  LET s == [request EXCEPT !.level[band] = level, !.updated = @ \cup {band}]
               IN s \in EqualizerSettings /\ Covers(s.updated, s, old)
    BY <1>1 DEF EqualizerSettings, Covers, old
  <1>4. ASSUME NEW level \in Settings
        PROVE  LET s == [request EXCEPT !.level = level,
                                        !.updated = @ \cup {b \in Bands : request.level[b] # level[b]}]
               IN s \in EqualizerSettings /\ Covers(s.updated, s, old)
    BY <1>1 DEF EqualizerSettings, Covers, old
  <1> QED  BY <1>2, <1>3, <1>4 DEF old

-----------------------------------------------------------------------------
(* The mixer thread takes the settings.                                    *)

\* the target of a filter depends on the bands it is affected by, and on no other
LEMMA TargetDepends ==
  ASSUME NEW b \in Bands, NEW bands \in SUBSET Bands, b \notin affected(bands),
         NEW gain, NEW shown, \A n \in Bands \ bands : shown[n] = gain[n]
  PROVE  Target(shown, b) = Target(gain, b)
  <1>1. CASE impl = "flat"
    BY <1>1 DEF Target, affected
  <1>2. CASE impl # "flat"
    <2>1. b \notin bands /\ (b - 1 \in Bands => b - 1 \notin bands) /\ (b + 1 \in Bands => b + 1 \notin bands)
      BY <1>2, BandsTyped DEF affected
    <2>2. shown[b] = gain[b] /\ (b - 1 \in Bands => shown[b - 1] = gain[b - 1])
          /\ (b + 1 \in Bands => shown[b + 1] = gain[b + 1])
      BY <2>1
    <2> QED  BY <1>2, <2>2 DEF Target, getCorrectedBandLevel
  <1> QED  BY <1>1, <1>2

\* what the polling makes of the gains: the settings that were told last, and the bands that have changed
LEMMA PollGains ==
  ASSUME TypeOK, SettingsInv, pollFromMixerThread
  PROVE  /\ requested' = <<>> /\ current' = Newest(requested) /\ current' \in EqualizerSettings
         /\ \A b \in Bands : req_gain'[b] = millibel_to_decibel(current'.level[b])
         /\ \A b \in Bands : cur_gain'[b] = IF current'.enabled THEN millibel_to_decibel(current'.level[b]) ELSE 0
         /\ \E renewed \in SUBSET Bands :
              /\ \A n \in Bands \ renewed : cur_gain'[n] = cur_gain[n]
              /\ onUpdateBandsLevel(cur_gain', renewed)
              /\ updating' = updating \cup affected(renewed)
              /\ renewed # Bands => current'.enabled = current.enabled
              /\ renewed = {} \/ renewed = Bands \/ current'.enabled
  <1> DEFINE told == Told(requested)
             now == Newest(requested)
             changed == told \cap Bands
             gain == [b \in Bands |-> IF b \in changed THEN millibel_to_decibel(now.level[b]) ELSE req_gain[b]]
             shown == [b \in Bands |-> IF Enabled \in told THEN (IF now.enabled THEN gain[b] ELSE 0)
                                       ELSE IF b \in changed /\ now.enabled THEN gain[b] ELSE cur_gain[b]]
             renewed == IF Enabled \in told THEN Bands ELSE IF now.enabled THEN changed ELSE {}
  <1>1. /\ requested' = <<>> /\ current' = now /\ req_gain' = gain /\ cur_gain' = shown
        /\ onUpdateBandsLevel(shown, renewed)
        /\ updating' = updating \cup affected(renewed)
    BY DEF pollFromMixerThread, Told, Newest
  <1>2. now \in EqualizerSettings
    <2>1. CASE requested = <<>>
      BY <2>1 DEF Newest, TypeOK
    <2>2. CASE requested # <<>>
      BY <2>2 DEF Newest, Last, TypeOK
    <2> QED  BY <2>1, <2>2
  <1>3. now.enabled \in BOOLEAN
    BY <1>2 DEF EqualizerSettings
  <1>4. /\ \A b \in Bands : b \notin told => now.level[b] = current.level[b]
        /\ Enabled \notin told => now.enabled = current.enabled
        /\ \A b \in Bands : req_gain[b] = millibel_to_decibel(current.level[b])
        /\ \A b \in Bands : cur_gain[b] = IF current.enabled THEN millibel_to_decibel(current.level[b]) ELSE 0
    BY DEF SettingsInv, Covers, TakenInv
  <1> HIDE DEF told, now
  <1>5. \A b \in Bands : gain[b] = millibel_to_decibel(now.level[b])
    BY <1>4
  <1> HIDE DEF gain
  <1>6. \A b \in Bands : shown[b] = IF now.enabled THEN millibel_to_decibel(now.level[b]) ELSE 0
    <2> SUFFICES ASSUME NEW b \in Bands PROVE shown[b] = IF now.enabled THEN millibel_to_decibel(now.level[b]) ELSE 0
      OBVIOUS
    <2>1. CASE Enabled \in told
      BY <1>5, <2>1
    <2>2. CASE Enabled \notin told /\ b \in changed /\ now.enabled
      BY <1>5, <2>2
    <2>3. CASE Enabled \notin told /\ ~(b \in changed /\ now.enabled)
      BY <1>4, <2>3
    <2> QED  BY <2>1, <2>2, <2>3
  <1>7. renewed \in SUBSET Bands /\ \A n \in Bands \ renewed : shown[n] = cur_gain[n]
    OBVIOUS
  <1>8. renewed # Bands => now.enabled = current.enabled
    BY <1>4
  <1>9. renewed = {} \/ renewed = Bands \/ now.enabled
    OBVIOUS
  <1> HIDE DEF shown, renewed, changed
  <1>10. /\ \A n \in Bands \ renewed : cur_gain'[n] = cur_gain[n]
         /\ onUpdateBandsLevel(cur_gain', renewed)
         /\ updating' = updating \cup affected(renewed)
         /\ renewed # Bands => current'.enabled = current.enabled
         /\ renewed = {} \/ renewed = Bands \/ current'.enabled
    BY <1>1, <1>7, <1>8, <1>9
  <1>11. /\ requested' = <<>> /\ current' = Newest(requested) /\ current' \in EqualizerSettings
         /\ \A b \in Bands : req_gain'[b] = millibel_to_decibel(current'.level[b])
         /\ \A b \in Bands : cur_gain'[b] = IF current'.enabled THEN millibel_to_decibel(current'.level[b]) ELSE 0
    BY <1>1, <1>2, <1>5, <1>6 DEF now
  <1> QED  BY <1>7, <1>10, <1>11

LEMMA PollFilters ==
  ASSUME TypeOK, SettingsInv, pollFromMixerThread
  PROVE  /\ TakenInv' \/ impl' # impl
         /\ req_gain' \in [Bands -> Int] /\ cur_gain' \in [Bands -> Int]
         /\ filters' \in [Bands -> Filters] /\ updating' \subseteq Bands
         /\ \A b \in Bands : /\ filters'[b].gain = filters[b].gain /\ filters'[b].loaded = filters[b].loaded
                             /\ filters'[b].unloaded = filters[b].unloaded
                             /\ filters[b].dirty => filters'[b].dirty
                             /\ filters'[b].dirty => filters[b].dirty \/ b \in updating'
                             /\ ~filters'[b].dirty => filters'[b] = filters[b]
         /\ updating \subseteq updating'
         /\ \/ \A b \in Bands : filters'[b].dirty
            \/ /\ current'.enabled = current.enabled
               /\ ~current.enabled => updating' = updating /\ filters' = filters
  <1>1. /\ current' = Newest(requested) /\ current' \in EqualizerSettings
        /\ \A b \in Bands : req_gain'[b] = millibel_to_decibel(current'.level[b])
        /\ \A b \in Bands : cur_gain'[b] = IF current'.enabled THEN millibel_to_decibel(current'.level[b]) ELSE 0
    BY PollGains
  <1>2. PICK renewed \in SUBSET Bands :
          /\ \A n \in Bands \ renewed : cur_gain'[n] = cur_gain[n]
          /\ onUpdateBandsLevel(cur_gain', renewed)
          /\ updating' = updating \cup affected(renewed)
          /\ renewed # Bands => current'.enabled = current.enabled
          /\ renewed = {} \/ renewed = Bands \/ current'.enabled
    BY PollGains
  <1>3. /\ req_gain' = [b \in Bands |-> req_gain'[b]] /\ cur_gain' = [b \in Bands |-> cur_gain'[b]]
    BY DEF pollFromMixerThread
  <1>4. current'.level \in [Bands -> Int]
    BY <1>1 DEF EqualizerSettings
  <1>5. req_gain' \in [Bands -> Int] /\ cur_gain' \in [Bands -> Int]
    BY <1>1, <1>3, <1>4, Converted
  <1>6. affected(renewed) \subseteq Bands /\ renewed \subseteq affected(renewed) /\ affected({}) = {}
    BY DEF affected
  <1> DEFINE moved == affected(renewed)
             new(b) == IF impl = "flat" THEN cur_gain'[b] ELSE getCorrectedBandLevel(cur_gain', b)
  <1>7. \A b \in Bands : filters'[b] = IF b \in moved THEN [filters[b] EXCEPT !.target = new(b), !.dirty = TRUE]
                                       ELSE filters[b]
    BY <1>2 DEF onUpdateBandsLevel
  <1>8. \A b \in Bands : new(b) \in Int
    <2> SUFFICES ASSUME NEW b \in Bands PROVE new(b) \in Int
      OBVIOUS
    <2>1. cur_gain'[b] \in Int
      BY <1>5
    <2> QED  BY <1>5, <2>1, CorrectedTyped
  <1> HIDE DEF new
  <1>9. ASSUME NEW b \in Bands
        PROVE  /\ filters'[b] \in Filters
               /\ b \in moved => filters'[b].target = new(b) /\ filters'[b].dirty
               /\ b \notin moved => filters'[b] = filters[b]
               /\ filters'[b].gain = filters[b].gain /\ filters'[b].loaded = filters[b].loaded
               /\ filters'[b].unloaded = filters[b].unloaded
               /\ filters[b].dirty => filters'[b].dirty
    <2> DEFINE f == filters[b]
    <2>1. f \in Filters
      BY DEF TypeOK
    <2>2. filters'[b] = IF b \in moved THEN [f EXCEPT !.target = new(b), !.dirty = TRUE] ELSE f
      BY <1>7
    <2>3. new(b) \in Int
      BY <1>8
    <2> HIDE DEF f, moved
    <2> QED  BY <2>1, <2>2, <2>3 DEF Filters, f
  <1>10. filters' = [b \in Bands |-> filters'[b]]
    BY <1>2 DEF onUpdateBandsLevel
  <1>11. filters' \in [Bands -> Filters]
    BY <1>9, <1>10
  <1>12. ASSUME NEW b \in Bands
         PROVE  filters'[b].target = Target(cur_gain', b)
    <2>1. CASE b \in moved
      BY <1>9, <2>1 DEF Target, new
    <2>2. CASE b \notin moved
      <3>1. Target(cur_gain', b) = Target(cur_gain, b)
        BY <1>2, <2>2, TargetDepends
      <3> QED  BY <1>9, <2>2, <3>1 DEF SettingsInv, TakenInv
    <2> QED  BY <2>1, <2>2
  <1>13. impl' = impl => TakenInv'
    BY <1>1, <1>12 DEF TakenInv, Target
  <1>14. updating' \subseteq Bands /\ updating \subseteq updating' /\ moved \subseteq updating'
    BY <1>2, <1>6 DEF TypeOK
  <1>15. \/ \A b \in Bands : filters'[b].dirty
         \/ /\ current'.enabled = current.enabled
            /\ ~current.enabled => updating' = updating /\ filters' = filters
    <2>1. CASE renewed = Bands
      BY <1>6, <1>9, <2>1
    <2>2. CASE renewed # Bands
      <3>1. current'.enabled = current.enabled /\ (~current.enabled => renewed = {})
        BY <1>2, <2>2
      <3>2. renewed = {} => updating' = updating /\ filters' = filters
        <4> SUFFICES ASSUME renewed = {} PROVE updating' = updating /\ filters' = filters
          OBVIOUS
        <4>1. moved = {}
          BY <1>6
        <4>2. \A b \in Bands : filters'[b] = filters[b]
          BY <1>9, <4>1
        <4>3. filters = [b \in Bands |-> filters[b]]
          BY DEF TypeOK
        <4> QED  BY <1>2, <1>10, <4>1, <4>2, <4>3
      <3> QED  BY <3>1, <3>2
    <2> QED  BY <2>1, <2>2
  <1> HIDE DEF moved
  <1>16. \A b \in Bands : /\ filters'[b].dirty => filters[b].dirty \/ b \in updating'
                          /\ ~filters'[b].dirty => filters'[b] = filters[b]
    BY <1>9, <1>14
  <1> QED  BY <1>5, <1>9, <1>11, <1>13, <1>14, <1>15, <1>16

-----------------------------------------------------------------------------
(* Arithmetic of steps and blocks.                                         *)

LEMMA Division ==
  ASSUME NEW d \in Nat, NEW k \in Nat \ {0}
  PROVE  d \div k \in Nat /\ (d \div k) * k <= d /\ d < (d \div k) * k + k
  <1>1. d \div k \in Int /\ d = k * (d \div k) + (d % k) /\ 0 <= d % k /\ d % k < k
    OBVIOUS
  <1>2. d \div k \in Nat
    BY <1>1
  <1> DEFINE q == d \div k
  <1>3. k * q = q * k
    BY <1>1
  <1> QED  BY <1>1, <1>2, <1>3

LEMMA TimesOrder ==
  ASSUME NEW a \in Int, NEW b \in Int, NEW k \in Nat \ {0}
  PROVE  (a <= b => a * k <= b * k) /\ (a * k < b * k => a < b)
  <1>1. ASSUME a <= b
        PROVE  a * k <= b * k
    <2>1. b - a >= 0 /\ k >= 0
      BY <1>1
    <2>2. (b - a) * k >= 0
      BY <2>1
    <2>3. (b - a) * k = b * k - a * k
      OBVIOUS
    <2> QED  BY <2>2, <2>3
  <1>2. ASSUME b <= a
        PROVE  b * k <= a * k
    <2>1. a - b >= 0 /\ k >= 0
      BY <1>2
    <2>2. (a - b) * k >= 0
      BY <2>1
    <2>3. (a - b) * k = a * k - b * k
      OBVIOUS
    <2> QED  BY <2>2, <2>3
  <1>3. a * k \in Int /\ b * k \in Int
    OBVIOUS
  <1> QED  BY <1>1, <1>2, <1>3

LEMMA CeilingBounds ==
  ASSUME NEW a \in Nat, NEW n \in Nat, a <= n, NEW k \in Nat \ {0}
  PROVE  /\ Ceiling(a, k) \in Nat /\ k * Ceiling(a, k) >= a
         /\ Ceiling(a, k) <= n \div k + 1
  <1> DEFINE q == (a + k - 1) \div k
             r == n \div k
  <1>1. q \in Nat /\ q * k <= a + k - 1 /\ a + k - 1 < q * k + k
    BY Division
  <1>2. r \in Nat /\ n < r * k + k
    BY Division
  <1> HIDE DEF q, r
  <1>3. (r + 2) * k = r * k + k + k /\ k * q = q * k /\ q * k \in Int /\ r * k \in Int
    BY <1>1, <1>2
  <1>4. q * k < (r + 2) * k
    BY <1>1, <1>2, <1>3
  <1>5. q < r + 2
    BY <1>1, <1>2, <1>4, TimesOrder
  <1> QED  BY <1>1, <1>2, <1>3, <1>5 DEF Ceiling, q, r

LEMMA StepsTyped ==
  ASSUME NEW f \in Filters
  PROVE  /\ steps(f) \in Nat /\ steps(f) * Step \in Nat
         /\ f.dirty => /\ steps(f) * Step <= Distance(f.gain, f.target)
                       /\ Distance(f.gain, f.target) < steps(f) * Step + Step
  <1>1. f.gain \in Int /\ f.target \in Int
    BY DEF Filters
  <1>2. Distance(f.gain, f.target) \in Nat
    BY <1>1 DEF Distance
  <1> DEFINE d == Distance(f.gain, f.target)
  <1>3. d \div Step \in Nat /\ (d \div Step) * Step <= d /\ d < (d \div Step) * Step + Step
    BY <1>2, Division
  <1>4. steps(f) \in Nat
    BY <1>3 DEF steps
  <1>5. steps(f) * Step \in Nat
    BY <1>4
  <1> QED  BY <1>3, <1>4, <1>5 DEF steps

\* how far some updates move a filter, and how far they leave it from its target
LEMMA UpdateMoves ==
  ASSUME NEW f \in Filters, NEW times \in Nat
  PROVE  /\ update(f, times) \in Filters
         /\ update(f, times).target = f.target
         /\ update(f, times).loaded = f.loaded /\ update(f, times).unloaded = f.unloaded
         /\ ~f.dirty => update(f, times) = f
         /\ f.dirty /\ times > steps(f) => update(f, times).gain = f.target /\ ~update(f, times).dirty
         /\ f.dirty /\ times <= steps(f) =>
              /\ update(f, times).dirty
              /\ Distance(update(f, times).gain, f.target) = Distance(f.gain, f.target) - times * Step
         /\ Distance(update(f, times).gain, f.gain) <= times * Step
         /\ times * Step \in Nat
  <1> DEFINE u == update(f, times)
             g == f.gain
             t == f.target
             m == times * Step
  <1> SUFFICES /\ u \in Filters
               /\ u.target = t /\ u.loaded = f.loaded /\ u.unloaded = f.unloaded
               /\ ~f.dirty => u = f
               /\ f.dirty /\ times > steps(f) => u.gain = t /\ ~u.dirty
               /\ f.dirty /\ times <= steps(f) => u.dirty /\ Distance(u.gain, t) = Distance(g, t) - m
               /\ Distance(u.gain, g) <= m
               /\ m \in Nat
    OBVIOUS
  <1>1. g \in Int /\ t \in Int /\ m \in Nat
    BY DEF Filters
  <1>2. CASE ~f.dirty
    <2>1. u = f
      BY <1>2 DEF update
    <2>2. Distance(g, g) = 0
      BY <1>1 DEF Distance
    <2> HIDE DEF u, m
    <2> QED  BY <1>1, <1>2, <2>1, <2>2
  <1>3. CASE f.dirty /\ times > steps(f)
    <2>1. u = [f EXCEPT !.gain = t, !.dirty = FALSE]
      BY <1>3 DEF update
    <2>2. /\ u \in Filters /\ u.target = t /\ u.gain = t /\ ~u.dirty
          /\ u.loaded = f.loaded /\ u.unloaded = f.unloaded
      BY <1>1, <2>1 DEF Filters
    <2>3. Distance(g, t) < steps(f) * Step + Step /\ steps(f) \in Nat
      BY <1>3, StepsTyped
    <2>4. (steps(f) + 1) * Step <= times * Step
      BY <1>3, <2>3, TimesOrder
    <2>5. (steps(f) + 1) * Step = steps(f) * Step + Step
      BY <2>3
    <2>6. Distance(t, g) = Distance(g, t) /\ Distance(g, t) \in Nat
      BY <1>1 DEF Distance
    <2>7. Distance(t, g) <= m
      BY <2>3, <2>4, <2>5, <2>6
    <2> HIDE DEF u, m
    <2> QED  BY <1>1, <1>3, <2>2, <2>7, StepsTyped
  <1>4. CASE f.dirty /\ times <= steps(f)
    <2>1. u = [f EXCEPT !.gain = IF g > t THEN g - m ELSE g + m]
      BY <1>4, StepsTyped DEF update
    <2>2. /\ u \in Filters /\ u.target = t /\ u.gain = (IF g > t THEN g - m ELSE g + m) /\ u.dirty
          /\ u.loaded = f.loaded /\ u.unloaded = f.unloaded
      BY <1>1, <1>4, <2>1 DEF Filters
    <2>3. m <= steps(f) * Step /\ steps(f) * Step <= Distance(g, t) /\ steps(f) * Step \in Nat
      BY <1>4, StepsTyped, TimesOrder
    <2>4. m <= Distance(g, t)
      BY <1>1, <2>3 DEF Distance
    <2> HIDE DEF u, m
    <2>5. Distance(u.gain, t) = Distance(g, t) - m /\ Distance(u.gain, g) <= m
      BY <1>1, <2>2, <2>4 DEF Distance
    <2> QED  BY <1>1, <1>4, <2>2, <2>5, StepsTyped
  <1> QED  BY <1>2, <1>3, <1>4, StepsTyped

-----------------------------------------------------------------------------
(* The groups part the bands, and each has one band or two.                *)

LEMMA GroupsPart ==
  ASSUME impl \in Impls
  PROVE  /\ \A g \in groups : \E x, y \in Bands : g = {x, y}
         /\ \A b \in Bands : b \in group_of(b) /\ group_of(b) \in groups
         /\ \A g \in groups : \A b \in g : g = group_of(b)
         /\ UNION groups = Bands
  <1>1. \A g \in groups : \E x, y \in Bands : g = {x, y}
    <2>1. CASE impl = "flat"
      BY <2>1 DEF groups
    <2>2. CASE impl # "flat"
      <3>1. \A i \in Bands : i % 2 = 0 => i + 1 \in Bands
        BY DEF Bands
      <3> QED  BY <2>2, <3>1 DEF groups
    <2> QED  BY <2>1, <2>2
  <1>2. \A b \in Bands : \E g \in groups : b \in g
    <2>1. CASE impl = "flat"
      BY <2>1 DEF groups
    <2>2. CASE impl # "flat"
      <3> SUFFICES ASSUME NEW b \in Bands PROVE \E i \in Bands : i % 2 = 0 /\ b \in {i, i + 1}
        BY <2>2 DEF groups
      <3>1. CASE b % 2 = 0
        BY <3>1
      <3>2. CASE b % 2 # 0
        <4>1. b - 1 \in Bands /\ (b - 1) % 2 = 0 /\ b = (b - 1) + 1
          BY <3>2 DEF Bands
        <4> QED  BY <4>1
      <3> QED  BY <3>1, <3>2
    <2> QED  BY <2>1, <2>2
  <1>3. \A g, h \in groups : \A b \in Bands : b \in g /\ b \in h => g = h
    <2>1. CASE impl = "flat"
      BY <2>1 DEF groups
    <2>2. CASE impl # "flat"
      <3>1. \A i, j \in Bands : i % 2 = 0 /\ j % 2 = 0 /\ {i, i + 1} \cap {j, j + 1} # {} => i = j
        BY DEF Bands
      <3> SUFFICES ASSUME NEW g \in groups, NEW h \in groups, NEW b \in Bands, b \in g, b \in h
                   PROVE  g = h
        OBVIOUS
      <3>2. PICK i \in Bands : i % 2 = 0 /\ g = {i, i + 1}
        BY <2>2 DEF groups
      <3>3. PICK j \in Bands : j % 2 = 0 /\ h = {j, j + 1}
        BY <2>2 DEF groups
      <3> QED  BY <3>1, <3>2, <3>3
    <2> QED  BY <2>1, <2>2
  <1>4. \A b \in Bands : b \in group_of(b) /\ group_of(b) \in groups
    BY <1>2 DEF group_of
  <1>5. \A g \in groups : g \subseteq Bands
    BY <1>1
  <1>6. \A g \in groups : \A b \in g : g = group_of(b)
    BY <1>3, <1>4, <1>5
  <1> QED  BY <1>1, <1>2, <1>4, <1>5, <1>6

LEMMA GreatestOfTwo ==
  ASSUME NEW u \in Nat, NEW v \in Nat
  PROVE  Max({u, v}) \in Nat /\ u <= Max({u, v}) /\ v <= Max({u, v})
  <1>1. \E n \in {u, v} : \A w \in {u, v} : n >= w
    OBVIOUS
  <1>2. Max({u, v}) \in {u, v} /\ \A w \in {u, v} : Max({u, v}) >= w
    BY <1>1 DEF Max
  <1> QED  BY <1>2

-----------------------------------------------------------------------------
(* A group is processed: as many updates as the blocks allow or the bands  *)
(* need, and one more when there are blocks left, which is not loaded.     *)

MostBlocks == BlockSize \div UpdateBlock + 1

LEMMA GroupOutcome ==
  ASSUME TypeOK, NEW group \in groups
  PROVE  \E turns \in Nat : \E last \in {turns, turns + 1} :
           /\ last <= MostBlocks
           /\ turns # last => \A b \in group : steps(filters[b]) <= turns
           /\ \A b \in group :
                /\ processGroup(group)[b] \in Filters
                /\ processGroup(group)[b].target = filters[b].target
                /\ processGroup(group)[b].gain = update(filters[b], last).gain
                /\ processGroup(group)[b].dirty = update(filters[b], last).dirty
                /\ processGroup(group)[b].loaded = IF turns = 0 THEN filters[b].loaded
                                                   ELSE update(filters[b], turns).gain
                /\ processGroup(group)[b].unloaded =
                     (IF turns = 0 THEN filters[b].unloaded ELSE 0)
                       + IF update(filters[b], last).gain = update(filters[b], turns).gain THEN 0 ELSE 1
  <1> DEFINE pending == CHOOSE p \in {filters[b].pending : b \in group} : TRUE
             remains == BlockSize - Lower(BlockSize, pending)
             blocks == Ceiling(remains, UpdateBlock)
             moving == Max({steps(filters[b]) : b \in group})
             turns == Lower(blocks, moving)
             left == IF turns = 0 THEN pending - Lower(BlockSize, pending)
                     ELSE IF turns < blocks THEN 0 ELSE UpdateBlock * blocks - remains
             loaded(b) == IF turns = 0 THEN filters[b].loaded ELSE update(filters[b], turns).gain
             last == IF turns < blocks THEN turns + 1 ELSE turns
             unloaded(b) == (IF turns = 0 THEN filters[b].unloaded ELSE 0)
                              + IF update(filters[b], last).gain = update(filters[b], turns).gain THEN 0 ELSE 1
  <1>1. PICK x \in Bands, y \in Bands : group = {x, y}
    BY GroupsPart DEF TypeOK
  <1>2. \A b \in group : filters[b] \in Filters
    BY <1>1 DEF TypeOK
  <1>3. pending \in Nat
    <2>1. pending \in {filters[b].pending : b \in group}
      BY <1>1
    <2> QED  BY <1>2, <2>1 DEF Filters
  <1>4. remains \in Nat /\ remains <= BlockSize /\ pending - Lower(BlockSize, pending) \in Nat
    BY <1>3 DEF Lower
  <1>5. blocks \in Nat /\ UpdateBlock * blocks >= remains /\ blocks <= MostBlocks
    BY <1>4, CeilingBounds DEF MostBlocks
  <1>6. moving \in Nat /\ \A b \in group : steps(filters[b]) <= moving
    <2>1. steps(filters[x]) \in Nat /\ steps(filters[y]) \in Nat
      BY <1>1, <1>2, StepsTyped
    <2>2. {steps(filters[b]) : b \in group} = {steps(filters[x]), steps(filters[y])}
      BY <1>1
    <2> HIDE DEF blocks, remains, pending
    <2>3. moving \in Nat /\ steps(filters[x]) <= moving /\ steps(filters[y]) <= moving
      BY <2>1, <2>2, GreatestOfTwo
    <2> QED  BY <1>1, <2>3
  <1> HIDE DEF blocks, moving, remains, pending
  <1>7. /\ turns \in Nat /\ last \in {turns, turns + 1} /\ last <= MostBlocks /\ last \in Nat
        /\ turns # last => \A b \in group : steps(filters[b]) <= turns
    <2>1. MostBlocks \in Nat
      BY Division DEF MostBlocks
    <2>2. turns \in Nat /\ turns <= blocks /\ (turns < blocks => turns = moving)
      BY <1>5, <1>6 DEF Lower
    <2> HIDE DEF turns
    <2>3. last \in {turns, turns + 1} /\ last <= blocks /\ (turns # last => turns = moving)
      BY <1>5, <2>2
    <2> HIDE DEF last
    <2> QED  BY <1>5, <1>6, <2>1, <2>2, <2>3
  <1>8. left \in Nat
    <2>1. UpdateBlock * blocks \in Nat
      BY <1>5
    <2>2. UpdateBlock * blocks - remains \in Nat
      BY <1>4, <1>5, <2>1
    <2> HIDE DEF turns
    <2> QED  BY <1>4, <2>2
  <1>9. DOMAIN processGroup(group) = group
        /\ \A b \in group : processGroup(group)[b] =
             [update(filters[b], last) EXCEPT
                !.loaded = IF turns = 0 THEN @ ELSE update(filters[b], turns).gain,
                !.pending = left,
                !.unloaded = (IF turns = 0 THEN @ ELSE 0)
                  + IF update(filters[b], last).gain = update(filters[b], turns).gain THEN 0 ELSE 1]
    BY DEF processGroup, pending, remains, blocks, moving
  <1> HIDE DEF left, last, turns
  <1>10. ASSUME NEW b \in group
         PROVE  LET p == processGroup(group)[b] IN
                /\ p \in Filters /\ p.target = filters[b].target
                /\ p.gain = update(filters[b], last).gain
                /\ p.dirty = update(filters[b], last).dirty
                /\ p.loaded = loaded(b)
                /\ p.unloaded = unloaded(b)
    <2> DEFINE u == update(filters[b], last)
               v == update(filters[b], turns).gain
               n == (IF turns = 0 THEN u.unloaded ELSE 0) + IF u.gain = v THEN 0 ELSE 1
               l == IF turns = 0 THEN u.loaded ELSE v
    <2>1. u \in Filters /\ u.target = filters[b].target
          /\ u.loaded = filters[b].loaded /\ u.unloaded = filters[b].unloaded
      BY <1>2, <1>7, UpdateMoves
    <2>2. v \in Int
      BY <1>2, <1>7, UpdateMoves DEF Filters
    <2>3. processGroup(group)[b] = [u EXCEPT !.loaded = l, !.pending = left, !.unloaded = n]
      BY <1>9
    <2>4. l = loaded(b) /\ n = unloaded(b)
      BY <2>1
    <2> HIDE DEF u, v
    <2>5. l \in Int /\ n \in Nat
      BY <2>1, <2>2 DEF Filters
    <2> HIDE DEF l, n
    <2>6. /\ processGroup(group)[b] \in Filters /\ processGroup(group)[b].target = u.target
          /\ processGroup(group)[b].gain = u.gain /\ processGroup(group)[b].dirty = u.dirty
          /\ processGroup(group)[b].loaded = l /\ processGroup(group)[b].unloaded = n
      BY <1>8, <2>1, <2>3, <2>5 DEF Filters
    <2> QED  BY <2>1, <2>4, <2>6 DEF u
  <1> QED  BY <1>7, <1>10

-----------------------------------------------------------------------------
(* What process() makes of a band: nothing, when no band of its group is   *)
(* active, or the outcome of its group.                                    *)

Moves(before, after, turns, last) ==
  /\ last <= MostBlocks
  /\ turns # last => steps(before) <= turns
  /\ after \in Filters /\ after.target = before.target
  /\ after.gain = update(before, last).gain /\ after.dirty = update(before, last).dirty
  /\ after.loaded = IF turns = 0 THEN before.loaded ELSE update(before, turns).gain
  /\ after.unloaded = (IF turns = 0 THEN before.unloaded ELSE 0)
                         + IF update(before, last).gain = update(before, turns).gain THEN 0 ELSE 1

LEMMA ProcessOutcome ==
  ASSUME TypeOK, process
  PROVE  /\ filters' \in [Bands -> Filters] /\ updating' \subseteq Bands
         /\ \A b \in Bands :
              \/ group_of(b) \cap active = {} /\ filters'[b] = filters[b] /\ b \notin updating'
              \/ /\ filters'[b].dirty => group_of(b) \subseteq updating'
                 /\ \E turns \in Nat : \E last \in {turns, turns + 1} : Moves(filters[b], filters'[b], turns, last)
  <1> DEFINE processed == {g \in groups : g \cap active # {}}
             after == [g \in processed |-> processGroup(g)]
  <1>1. /\ \A g \in groups : \E x, y \in Bands : g = {x, y}
        /\ \A b \in Bands : b \in group_of(b) /\ group_of(b) \in groups
        /\ \A g \in groups : \A b \in g : g = group_of(b)
        /\ UNION groups = Bands
    BY GroupsPart DEF TypeOK
  <1>2. /\ filters' = [b \in Bands |-> IF group_of(b) \in processed THEN after[group_of(b)][b] ELSE filters[b]]
        /\ updating' = UNION {g \in processed : goes_on(after[g])}
    BY DEF process, group_of
  <1>3. \A g \in processed : after[g] = processGroup(g) /\ g \in groups
    OBVIOUS
  <1>4. \A b \in Bands : group_of(b) \in processed <=> group_of(b) \cap active # {}
    BY <1>1
  <1>5. \A g \in processed : DOMAIN processGroup(g) = g
    BY DEF processGroup
  <1> HIDE DEF processed, after
  <1>6. updating' \subseteq Bands
    BY <1>1, <1>2, <1>3
  <1>7. ASSUME NEW b \in Bands
        PROVE  /\ filters'[b] \in Filters
               /\ \/ group_of(b) \cap active = {} /\ filters'[b] = filters[b] /\ b \notin updating'
                  \/ /\ filters'[b].dirty => group_of(b) \subseteq updating'
                     /\ \E turns \in Nat : \E last \in {turns, turns + 1} : Moves(filters[b], filters'[b], turns, last)
    <2> DEFINE g == group_of(b)
    <2>1. b \in g /\ g \in groups
      BY <1>1
    <2>2. CASE g \cap active = {}
      <3>1. filters'[b] = filters[b]
        BY <1>2, <1>4, <2>2
      <3>2. \A h \in processed : b \notin h
        BY <1>1, <1>3, <1>4, <2>2
      <3>3. b \notin updating'
        BY <1>2, <3>2
      <3> QED  BY <2>2, <3>1, <3>3 DEF TypeOK
    <2>3. CASE g \cap active # {}
      <3>1. g \in processed /\ filters'[b] = processGroup(g)[b]
        BY <1>2, <1>3, <1>4, <2>3
      <3>2. PICK turns \in Nat : \E last \in {turns, turns + 1} :
              /\ last <= MostBlocks
              /\ turns # last => \A n \in g : steps(filters[n]) <= turns
              /\ \A n \in g :
                   /\ processGroup(g)[n] \in Filters
                   /\ processGroup(g)[n].target = filters[n].target
                   /\ processGroup(g)[n].gain = update(filters[n], last).gain
                   /\ processGroup(g)[n].dirty = update(filters[n], last).dirty
                   /\ processGroup(g)[n].loaded = IF turns = 0 THEN filters[n].loaded
                                                     ELSE update(filters[n], turns).gain
                   /\ processGroup(g)[n].unloaded =
                        (IF turns = 0 THEN filters[n].unloaded ELSE 0)
                          + IF update(filters[n], last).gain = update(filters[n], turns).gain THEN 0 ELSE 1
        <4> HIDE DEF g
        <4> QED  BY <2>1, GroupOutcome
      <3>3. PICK last \in {turns, turns + 1} :
              /\ last <= MostBlocks
              /\ turns # last => \A n \in g : steps(filters[n]) <= turns
              /\ \A n \in g :
                   /\ processGroup(g)[n] \in Filters
                   /\ processGroup(g)[n].target = filters[n].target
                   /\ processGroup(g)[n].gain = update(filters[n], last).gain
                   /\ processGroup(g)[n].dirty = update(filters[n], last).dirty
                   /\ processGroup(g)[n].loaded = IF turns = 0 THEN filters[n].loaded
                                                     ELSE update(filters[n], turns).gain
                   /\ processGroup(g)[n].unloaded =
                        (IF turns = 0 THEN filters[n].unloaded ELSE 0)
                          + IF update(filters[n], last).gain = update(filters[n], turns).gain THEN 0 ELSE 1
        BY <3>2
      <3>4. Moves(filters[b], filters'[b], turns, last)
        <4> HIDE DEF g
        <4> QED  BY <2>1, <3>1, <3>3 DEF Moves
      <3>5. ASSUME filters'[b].dirty PROVE g \subseteq updating'
        <4>1. goes_on(after[g])
          <5> HIDE DEF g
          <5> QED  BY <1>3, <1>5, <2>1, <3>1, <3>5 DEF goes_on
        <4> QED  BY <1>2, <3>1, <4>1
      <3>6. filters'[b] \in Filters
        BY <3>4 DEF Moves
      <3> QED  BY <3>4, <3>5, <3>6
    <2> QED  BY <2>2, <2>3
  <1>8. filters' = [b \in Bands |-> filters'[b]]
    BY <1>2
  <1>9. filters' \in [Bands -> Filters]
    BY <1>7, <1>8
  <1> QED  BY <1>6, <1>7, <1>9

-----------------------------------------------------------------------------
(* The filters follow the settings.                                        *)

\* a band that moves is looked after, and one that does not is where it should be
MovingInv ==
  \A b \in Bands : /\ filters[b].dirty => group_of(b) \cap updating # {}
                   /\ ~filters[b].dirty => filters[b].gain = filters[b].target
FollowInv == TypeOK /\ SettingsInv /\ MovingInv

LEMMA MoveSettles ==
  ASSUME NEW f \in Filters, NEW g \in Filters, NEW turns \in Nat, NEW last \in {turns, turns + 1},
         Moves(f, g, turns, last), ~f.dirty => f.gain = f.target
  PROVE  /\ ~g.dirty => g.gain = g.target
         /\ ~f.dirty => ~g.dirty /\ g.gain = f.gain
  <1>1. last \in Nat
    OBVIOUS
  <1>2. /\ g.target = f.target /\ g.gain = update(f, last).gain /\ g.dirty = update(f, last).dirty
    BY DEF Moves
  <1>3. /\ ~f.dirty => update(f, last) = f
        /\ f.dirty /\ last > steps(f) => update(f, last).gain = f.target /\ ~update(f, last).dirty
        /\ f.dirty /\ last <= steps(f) => update(f, last).dirty
    BY <1>1, UpdateMoves
  <1>4. steps(f) \in Nat /\ f.dirty \in BOOLEAN
    BY StepsTyped DEF Filters
  <1> QED  BY <1>1, <1>2, <1>3, <1>4

LEMMA FollowInit ==
  ASSUME Init
  PROVE  FollowInv
  <1>1. Flat \in [Bands -> Int]
    BY DEF Flat
  <1>2. TypeOK
    <2>1. Filter \in Filters
      BY DEF Filter, Filters
    <2>2. request \in EqualizerSettings
      BY <1>1 DEF Init, EqualizerSettings
    <2> QED  BY <1>1, <2>1, <2>2 DEF Init, TypeOK
  <1>3. \A b \in Bands : Target(Flat, b) = 0
    <2>1. \A b \in Bands : Flat[b] = 0 /\ 0 - (3 * (0 + 0)) \div 20 = 0
      BY DEF Flat
    <2> QED  BY <2>1 DEF Target, getCorrectedBandLevel
  <1>4. SettingsInv
    <2>1. /\ requested = <<>> /\ current = request /\ current.level = Flat /\ current.enabled = FALSE
          /\ req_gain = Flat /\ cur_gain = Flat /\ \A b \in Bands : filters[b].target = 0
      BY DEF Init, Filter
    <2>2. TakenInv
      BY <1>3, <2>1 DEF TakenInv, Flat, millibel_to_decibel
    <2> QED  BY <2>1, <2>2 DEF SettingsInv, Covers, Newest
  <1>5. MovingInv
    BY DEF Init, Filter, MovingInv
  <1> QED  BY <1>2, <1>4, <1>5 DEF FollowInv

\* what the filters hold and the bands they are grouped in
held == <<impl, current, req_gain, cur_gain, filters, updating>>

LEMMA FollowKept ==
  ASSUME TakenInv, MovingInv, UNCHANGED held
  PROVE  TakenInv' /\ MovingInv'
  <1>1. TakenInv'
    BY DEF TakenInv, Target, getCorrectedBandLevel, held
  <1>2. MovingInv'
    <2>1. \A b \in Bands : group_of(b)' = group_of(b)
      BY DEF group_of, groups, held
    <2>2. filters' = filters /\ updating' = updating
      BY DEF held
    <2> QED  BY <2>1, <2>2 DEF MovingInv
  <1> QED  BY <1>1, <1>2

LEMMA FollowNext ==
  ASSUME FollowInv, [Next]_vars
  PROVE  FollowInv'
  <1> USE DEF FollowInv
  <1>1. ASSUME NEW settings \in EqualizerSettings, Covers(settings.updated, settings, Newest(requested)),
               Change(settings)
        PROVE  FollowInv'
    <2>1. apply(settings, free) /\ UNCHANGED <<impl, mixer, mixerVars>>
      BY <1>1 DEF Change
    <2>2. UNCHANGED held /\ UNCHANGED current
      BY <2>1 DEF mixerVars, held
    <2>3. /\ request' \in EqualizerSettings /\ requested' \in Seq(EqualizerSettings)
          /\ Covers(Told(requested), Newest(requested), current)'
          /\ Covers(request.updated, request, Newest(requested))'
      BY <1>1, <2>1, <2>2, ApplyKeeps
    <2>4. TakenInv' /\ MovingInv'
      BY <2>2, FollowKept DEF SettingsInv
    <2> QED  BY <2>1, <2>2, <2>3, <2>4 DEF TypeOK, SettingsInv, held
  <1>2. ASSUME NEW enabled \in BOOLEAN, setEnabled(enabled)
        PROVE  FollowInv'
    <2> DEFINE s == [request EXCEPT !.enabled = enabled, !.updated = @ \cup {Enabled}]
    <2>1. s \in EqualizerSettings /\ Covers(s.updated, s, Newest(requested))
      BY CallsCover
    <2>2. Change(s)
      BY <1>2 DEF setEnabled
    <2> HIDE DEF s
    <2> QED  BY <1>1, <2>1, <2>2
  <1>3. ASSUME NEW band \in Touched, NEW level \in Levels, setBandLevel(band, level)
        PROVE  FollowInv'
    <2> DEFINE s == [request EXCEPT !.level[band] = clamp(level), !.updated = @ \cup {band}]
    <2>1. s \in EqualizerSettings /\ Covers(s.updated, s, Newest(requested))
      <3>1. clamp(level) \in Int /\ band \in Bands
        BY Converted
      <3> QED  BY <3>1, CallsCover
    <2>2. Change(s)
      BY <1>3 DEF setBandLevel
    <2> HIDE DEF s
    <2> QED  BY <1>1, <2>1, <2>2
  <1>4. ASSUME NEW level \in Settings, setAllBandLevel(level)
        PROVE  FollowInv'
    <2> DEFINE s == [request EXCEPT !.level = level,
                                    !.updated = @ \cup {b \in Bands : request.level[b] # level[b]}]
    <2>1. s \in EqualizerSettings /\ Covers(s.updated, s, Newest(requested))
      BY CallsCover
    <2>2. Change(s)
      BY <1>4 DEF setAllBandLevel
    <2> HIDE DEF s
    <2> QED  BY <1>1, <2>1, <2>2
  <1>5. CASE poll
    <2>1. apply(request, free + used) /\ UNCHANGED <<impl, mixer, mixerVars>>
      BY <1>5 DEF poll
    <2>2. UNCHANGED held /\ UNCHANGED current
      BY <2>1 DEF mixerVars, held
    <2>3. request \in EqualizerSettings /\ Covers(request.updated, request, Newest(requested))
      BY DEF TypeOK, SettingsInv
    <2>4. /\ request' \in EqualizerSettings /\ requested' \in Seq(EqualizerSettings)
          /\ Covers(Told(requested), Newest(requested), current)'
          /\ Covers(request.updated, request, Newest(requested))'
      BY <2>1, <2>2, <2>3, ApplyKeeps
    <2>5. TakenInv' /\ MovingInv'
      BY <2>2, FollowKept DEF SettingsInv
    <2> QED  BY <2>1, <2>2, <2>4, <2>5 DEF TypeOK, SettingsInv, held
  <1>6. ASSUME UNCHANGED <<request, requested, held>>, mixer' \in {"loop", "mix", "waiting"}
        PROVE  FollowInv'
    <2>1. TakenInv' /\ MovingInv'
      BY <1>6, FollowKept DEF SettingsInv
    <2>2. TypeOK'
      BY <1>6 DEF TypeOK, held
    <2>3. UNCHANGED <<request, requested, current>>
      BY <1>6 DEF held
    <2> QED  BY <2>1, <2>2, <2>3 DEF SettingsInv, Covers, Told, Newest
  <1>7. CASE suspend \/ resume \/ MixerResumes \/ MixerSleeps \/ UNCHANGED vars
    BY <1>6, <1>7 DEF suspend, resume, MixerResumes, MixerSleeps, vars, handlerVars, mixerVars, held, TypeOK
  <1>8. CASE MixerPolls \/ MixerSuspends
    <2>1. pollFromMixerThread /\ UNCHANGED <<impl, request>> /\ mixer' \in {"loop", "mix", "waiting"}
      BY <1>8 DEF MixerPolls, MixerSuspends, handlerVars
    <2>2. requested' = <<>> /\ current' = Newest(requested) /\ current' \in EqualizerSettings
      BY <2>1, PollGains
    <2>3. /\ TakenInv' \/ impl' # impl
          /\ req_gain' \in [Bands -> Int] /\ cur_gain' \in [Bands -> Int]
          /\ filters' \in [Bands -> Filters] /\ updating' \subseteq Bands
          /\ \A b \in Bands : /\ filters'[b].dirty => filters[b].dirty \/ b \in updating'
                              /\ ~filters'[b].dirty => filters'[b] = filters[b]
          /\ updating \subseteq updating'
      BY <2>1, PollFilters
    <2>4. TypeOK'
      BY <2>1, <2>2, <2>3 DEF TypeOK
    <2>5. SettingsInv'
      <3>1. Covers(Told(requested), Newest(requested), current)'
        BY <2>2 DEF Covers, Newest
      <3>2. Covers(request.updated, request, Newest(requested))'
        BY <2>1, <2>2 DEF SettingsInv, Covers, Newest
      <3> QED  BY <2>1, <2>3, <3>1, <3>2 DEF SettingsInv
    <2>6. MovingInv'
      <3>1. \A b \in Bands : b \in group_of(b) /\ group_of(b)' = group_of(b)
        BY <2>1, GroupsPart DEF group_of, groups, TypeOK
      <3> QED  BY <2>3, <3>1 DEF MovingInv
    <2> QED  BY <2>4, <2>5, <2>6
  <1>9. CASE MixerMixes
    <2>1. process /\ mixer' = "loop" /\ UNCHANGED <<impl, request, requested, current, req_gain, cur_gain>>
      BY <1>9 DEF MixerMixes, handlerVars
    <2>2. /\ filters' \in [Bands -> Filters] /\ updating' \subseteq Bands
          /\ \A b \in Bands :
               \/ group_of(b) \cap active = {} /\ filters'[b] = filters[b] /\ b \notin updating'
               \/ /\ filters'[b].dirty => group_of(b) \subseteq updating'
                  /\ \E turns \in Nat : \E last \in {turns, turns + 1} : Moves(filters[b], filters'[b], turns, last)
      BY <2>1, ProcessOutcome
    <2>3. TypeOK'
      BY <2>1, <2>2 DEF TypeOK
    <2>4. \A b \in Bands : b \in group_of(b) /\ group_of(b)' = group_of(b)
      BY <2>1, GroupsPart DEF group_of, groups, TypeOK
    <2>5. ASSUME NEW b \in Bands
          PROVE  /\ filters'[b].target = filters[b].target
                 /\ filters'[b].dirty => group_of(b) \cap updating' # {}
                 /\ ~filters'[b].dirty => filters'[b].gain = filters'[b].target
      <3>1. /\ filters[b] \in Filters /\ filters'[b] \in Filters
            /\ filters[b].dirty => group_of(b) \cap updating # {}
            /\ ~filters[b].dirty => filters[b].gain = filters[b].target
        BY <2>3 DEF TypeOK, MovingInv
      <3>2. CASE group_of(b) \cap active = {} /\ filters'[b] = filters[b]
        <4>1. group_of(b) \cap updating = {}
          BY <2>4, <3>2 DEF active, TypeOK
        <4> QED  BY <3>1, <3>2, <4>1
      <3>3. ASSUME filters'[b].dirty => group_of(b) \subseteq updating',
                   NEW turns \in Nat, NEW last \in {turns, turns + 1}, Moves(filters[b], filters'[b], turns, last)
            PROVE  /\ filters'[b].target = filters[b].target
                   /\ filters'[b].dirty => group_of(b) \cap updating' # {}
                   /\ ~filters'[b].dirty => filters'[b].gain = filters'[b].target
        <4>1. ~filters'[b].dirty => filters'[b].gain = filters'[b].target
          BY <3>1, <3>3, MoveSettles
        <4>2. filters'[b].target = filters[b].target
          BY <3>3 DEF Moves
        <4> QED  BY <2>4, <3>3, <4>1, <4>2
      <3> QED  BY <2>2, <3>2, <3>3
    <2>6. SettingsInv'
      <3>1. TakenInv'
        BY <2>1, <2>5 DEF SettingsInv, TakenInv, Target, getCorrectedBandLevel
      <3> QED  BY <2>1, <3>1 DEF SettingsInv, Covers, Told, Newest
    <2>7. MovingInv'
      BY <2>4, <2>5 DEF MovingInv
    <2> QED  BY <2>3, <2>6, <2>7
  <1> QED  BY <1>2, <1>3, <1>4, <1>5, <1>7, <1>8, <1>9 DEF Next

\* Whatever was taken at once, and in whatever order things were set, every filter moves towards what the mixer
\* thread was told last, corrected for the neighbours, or towards nothing when the equalizer is disabled; and
\* when it moves no filter any more, every gain is there, and a disabled equalizer does nothing to the sound.
FiltersFollow ==
  \A b \in Bands :
    /\ filters[b].target = IF impl = "flat" THEN asked[b] ELSE getCorrectedBandLevel(asked, b)
    /\ updating = {} => filters[b].gain = filters[b].target /\ (~current.enabled => bypassed(b))

\* the target that TakenInv tells of is the one the settings ask for
LEMMA TargetAsked ==
  ASSUME TakenInv, NEW b \in Bands
  PROVE  /\ filters[b].target = IF impl = "flat" THEN asked[b] ELSE getCorrectedBandLevel(asked, b)
         /\ ~current.enabled => filters[b].target = 0
  <1>1. filters[b].target = Target(cur_gain, b) /\ \A n \in Bands : cur_gain[n] = asked[n]
    BY DEF TakenInv, asked
  <1>2. Target(cur_gain, b) = Target(asked, b)
    BY <1>1 DEF Target, getCorrectedBandLevel
  <1>3. ASSUME ~current.enabled PROVE Target(asked, b) = 0
    <2>1. \A n \in Bands : asked[n] = 0
      BY <1>3 DEF asked
    <2>2. 0 - (3 * (0 + 0)) \div 20 = 0
      OBVIOUS
    <2>3. getCorrectedBandLevel(asked, b) = 0
      BY <2>1, <2>2 DEF getCorrectedBandLevel
    <2> QED  BY <2>1, <2>3 DEF Target
  <1> QED  BY <1>1, <1>2, <1>3 DEF Target

LEMMA FollowSuffices ==
  ASSUME FollowInv
  PROVE  FiltersFollow
  <1> SUFFICES ASSUME NEW b \in Bands
               PROVE  /\ filters[b].target = IF impl = "flat" THEN asked[b] ELSE getCorrectedBandLevel(asked, b)
                      /\ updating = {} => filters[b].gain = filters[b].target /\ (~current.enabled => bypassed(b))
    BY DEF FiltersFollow
  <1>1. ASSUME updating = {} PROVE filters[b].gain = filters[b].target
    BY <1>1 DEF FollowInv, MovingInv
  <1>2. ASSUME updating = {}, ~current.enabled PROVE bypassed(b)
    BY <1>2 DEF bypassed, active
  <1> QED  BY <1>1, <1>2, TargetAsked DEF FollowInv, SettingsInv

\* The filters follow the settings (HQEqualizer.cpp: pollFromMixerThread(), process()), whatever the levels, the
\* step and the blocks are.
THEOREM FiltersFollowSettings == Spec => []FiltersFollow
  <1>1. Init => FollowInv
    BY FollowInit
  <1>2. FollowInv /\ [Next]_vars => FollowInv'
    BY FollowNext
  <1>3. FollowInv => FiltersFollow
    BY FollowSuffices
  <1> QED  BY <1>1, <1>2, <1>3, PTL DEF Spec

-----------------------------------------------------------------------------
(* What is heard follows the filters: every update moves a filter by a    *)
(* step or less, and one that is not loaded is counted.                    *)

\* what is loaded is no further from the gain than a step for every update that was not loaded
LoadedNear(f) == Distance(f.loaded, f.gain) <= Step * f.unloaded
HeardInv == \A b \in Bands : LoadedNear(filters[b])
IInv == FollowInv /\ HeardInv

LEMMA DistanceTyped ==
  ASSUME NEW a \in Int, NEW b \in Int, NEW c \in Int
  PROVE  /\ Distance(a, b) \in Nat /\ Distance(a, b) = Distance(b, a) /\ Distance(a, a) = 0
         /\ Distance(a, c) <= Distance(a, b) + Distance(b, c)
  BY DEF Distance

\* an update moves a filter by no more than a step
LEMMA UpdateStep ==
  ASSUME NEW f \in Filters, NEW turns \in Nat, NEW last \in {turns, turns + 1},
         turns # last => steps(f) <= turns
  PROVE  Distance(update(f, turns).gain, update(f, last).gain) <= Step
  <1>1. last \in Nat
    OBVIOUS
  <1> DEFINE u == update(f, turns)
             v == update(f, last)
  <1>2. /\ u \in Filters /\ v \in Filters
        /\ ~f.dirty => u = f /\ v = f
        /\ f.dirty /\ turns > steps(f) => u.gain = f.target
        /\ f.dirty /\ last > steps(f) => v.gain = f.target
        /\ f.dirty /\ turns <= steps(f) => Distance(u.gain, f.target) = Distance(f.gain, f.target) - turns * Step
    BY <1>1, UpdateMoves
  <1>3. turns = last => u = v
    OBVIOUS
  <1> HIDE DEF u, v
  <1>4. u.gain \in Int /\ v.gain \in Int /\ f.dirty \in BOOLEAN /\ steps(f) \in Nat
    BY <1>2, StepsTyped DEF Filters
  <1>5. CASE u.gain = v.gain
    <2>1. Distance(v.gain, v.gain) = 0
      BY <1>4 DEF Distance
    <2> QED  BY <1>5, <2>1 DEF u, v
  <1>6. CASE u.gain # v.gain
    <2>1. f.dirty /\ last = turns + 1 /\ steps(f) <= turns
      BY <1>2, <1>3, <1>4, <1>6
    <2>2. v.gain = f.target /\ turns = steps(f)
      BY <1>2, <1>4, <1>6, <2>1
    <2>3. Distance(u.gain, f.target) = Distance(f.gain, f.target) - turns * Step
      BY <1>2, <1>4, <2>1, <2>2
    <2>4. Distance(f.gain, f.target) < steps(f) * Step + Step /\ steps(f) * Step \in Nat
      BY <2>1, StepsTyped
    <2>5. Distance(f.gain, f.target) \in Nat
      BY DistanceTyped DEF Filters
    <2>6. Distance(u.gain, v.gain) <= Step
      BY <2>2, <2>3, <2>4, <2>5
    <2> QED  BY <2>6 DEF u, v
  <1> QED  BY <1>5, <1>6

LEMMA Drift ==
  ASSUME NEW n \in Nat
  PROVE  Step * n \in Nat /\ Step * (n + 1) = Step * n + Step /\ Step * 0 = 0 /\ Step * 1 = Step
  OBVIOUS

\* after a group was processed, each of its filters is as near to what is loaded as the count says
LEMMA MoveLoads ==
  ASSUME NEW f \in Filters, NEW g \in Filters, NEW turns \in Nat, NEW last \in {turns, turns + 1},
         Moves(f, g, turns, last), LoadedNear(f)
  PROVE  LoadedNear(g)
  <1> DEFINE moved == update(f, last).gain
             reachd == update(f, turns).gain
  <1>1. /\ g.gain = moved
        /\ g.loaded = IF turns = 0 THEN f.loaded ELSE reachd
        /\ g.unloaded = (IF turns = 0 THEN f.unloaded ELSE 0) + IF moved = reachd THEN 0 ELSE 1
    BY DEF Moves
  <1>2. Distance(reachd, moved) <= Step
    BY UpdateStep DEF Moves
  <1>3. last \in Nat /\ update(f, turns) \in Filters /\ update(f, last) \in Filters
    <2>1. last \in Nat
      OBVIOUS
    <2> QED  BY <2>1, UpdateMoves
  <1>4. reachd \in Int /\ moved \in Int /\ f.loaded \in Int /\ f.gain \in Int /\ f.unloaded \in Nat
    BY <1>3 DEF Filters
  <1>5. turns = 0 => reachd = f.gain
    <2>1. Distance(reachd, f.gain) <= turns * Step
      BY UpdateMoves
    <2>2. turns = 0 => turns * Step = 0
      OBVIOUS
    <2> QED  BY <1>4, <2>1, <2>2 DEF Distance
  <1>6. Distance(f.loaded, f.gain) <= Step * f.unloaded
    BY DEF LoadedNear
  <1> HIDE DEF moved, reachd
  <1> DEFINE d == Step * f.unloaded
  <1>7. d \in Nat /\ Step * (f.unloaded + 1) = d + Step /\ Step * 0 = 0 /\ Step * 1 = Step
    BY <1>4, Drift
  <1>8. Distance(f.loaded, f.gain) <= d
    BY <1>6
  <1> HIDE DEF d
  <1>9. CASE turns = 0 /\ moved = reachd
    <2>1. g.gain = f.gain /\ g.loaded = f.loaded /\ g.unloaded = f.unloaded
      BY <1>1, <1>4, <1>5, <1>9
    <2> QED  BY <2>1 DEF LoadedNear
  <1>10. CASE turns = 0 /\ moved # reachd
    <2>1. g.gain = moved /\ g.loaded = f.loaded /\ g.unloaded = f.unloaded + 1
      BY <1>1, <1>10
    <2>2. Distance(f.loaded, moved) <= d + Step
      BY <1>2, <1>4, <1>5, <1>7, <1>8, <1>10 DEF Distance
    <2> QED  BY <1>7, <2>1, <2>2 DEF LoadedNear
  <1>11. CASE turns # 0 /\ moved = reachd
    <2>1. g.gain = moved /\ g.loaded = moved /\ g.unloaded = 0
      BY <1>1, <1>11
    <2>2. Distance(moved, moved) = 0
      BY <1>4 DEF Distance
    <2> QED  BY <1>7, <2>1, <2>2 DEF LoadedNear
  <1>12. CASE turns # 0 /\ moved # reachd
    <2>1. g.gain = moved /\ g.loaded = reachd /\ g.unloaded = 1
      BY <1>1, <1>12
    <2> QED  BY <1>2, <1>7, <2>1 DEF LoadedNear
  <1> QED  BY <1>9, <1>10, <1>11, <1>12

LEMMA HeardInit ==
  ASSUME Init
  PROVE  HeardInv
  <1>1. \A b \in Bands : filters[b].loaded = 0 /\ filters[b].gain = 0 /\ filters[b].unloaded = 0
    BY DEF Init, Filter
  <1>2. Distance(0, 0) = 0 /\ Step * 0 = 0
    BY DEF Distance
  <1> QED  BY <1>1, <1>2 DEF HeardInv, LoadedNear

LEMMA HeardNext ==
  ASSUME IInv, [Next]_vars
  PROVE  HeardInv'
  <1>1. FollowInv /\ HeardInv /\ TypeOK /\ SettingsInv
    BY DEF IInv, FollowInv
  <1>2. CASE UNCHANGED held
    <2>1. filters' = filters
      BY <1>2 DEF held
    <2> QED  BY <1>1, <2>1 DEF HeardInv
  <1>3. CASE MixerPolls \/ MixerSuspends
    <2>1. pollFromMixerThread
      BY <1>3 DEF MixerPolls, MixerSuspends
    <2>2. \A b \in Bands : /\ filters'[b].gain = filters[b].gain /\ filters'[b].loaded = filters[b].loaded
                           /\ filters'[b].unloaded = filters[b].unloaded
      BY <1>1, <2>1, PollFilters
    <2> QED  BY <1>1, <2>2 DEF HeardInv, LoadedNear
  <1>4. CASE MixerMixes
    <2>1. process
      BY <1>4 DEF MixerMixes
    <2>2. /\ filters' \in [Bands -> Filters]
          /\ \A b \in Bands :
               \/ group_of(b) \cap active = {} /\ filters'[b] = filters[b] /\ b \notin updating'
               \/ /\ filters'[b].dirty => group_of(b) \subseteq updating'
                  /\ \E turns \in Nat : \E last \in {turns, turns + 1} : Moves(filters[b], filters'[b], turns, last)
      BY <1>1, <2>1, ProcessOutcome
    <2>3. ASSUME NEW b \in Bands PROVE LoadedNear(filters'[b])
      <3>1. LoadedNear(filters[b])
        BY <1>1 DEF HeardInv
      <3>2. filters[b] \in Filters /\ filters'[b] \in Filters
        BY <1>1, <2>2 DEF TypeOK
      <3>3. ASSUME NEW turns \in Nat, NEW last \in {turns, turns + 1}, Moves(filters[b], filters'[b], turns, last)
            PROVE  LoadedNear(filters'[b])
        BY <3>1, <3>2, <3>3, MoveLoads
      <3> QED  BY <2>2, <3>1, <3>3
    <2> QED  BY <2>3 DEF HeardInv
  <1>5. [Next]_vars => UNCHANGED held \/ MixerPolls \/ MixerSuspends \/ MixerMixes
    BY DEF Next, vars, handlerVars, mixerVars, held, setEnabled, setBandLevel, setAllBandLevel, Change, poll,
           suspend, resume, MixerResumes, MixerSleeps
  <1> QED  BY <1>2, <1>3, <1>4, <1>5

\* a band is bypassed when no filter of its group moves and all have no gain, whatever is active
AtRest(b) == \A n \in group_of(b) : ~filters[n].dirty /\ filters[n].gain = 0

LEMMA BypassedAtRest ==
  FollowInv => \A b \in Bands : b \in group_of(b) /\ group_of(b) \subseteq Bands /\ (bypassed(b) <=> AtRest(b))
  <1> SUFFICES ASSUME FollowInv, NEW b \in Bands
               PROVE  b \in group_of(b) /\ group_of(b) \subseteq Bands /\ (bypassed(b) <=> AtRest(b))
    OBVIOUS
  <1>1. TypeOK /\ TakenInv /\ MovingInv
    BY DEF FollowInv, SettingsInv
  <1>2. /\ b \in group_of(b) /\ group_of(b) \subseteq Bands /\ group_of(b) # {}
        /\ \A n \in group_of(b) : group_of(n) = group_of(b)
    BY <1>1, GroupsPart DEF TypeOK
  <1>3. ASSUME group_of(b) \cap active = {} PROVE AtRest(b)
    <2>1. ~current.enabled /\ group_of(b) \cap updating = {}
      BY <1>2, <1>3 DEF active
    <2>2. \A n \in group_of(b) : ~filters[n].dirty
      BY <1>1, <1>2, <2>1 DEF MovingInv
    <2>3. \A n \in group_of(b) : filters[n].gain = filters[n].target
      BY <1>1, <1>2, <2>2 DEF MovingInv
    <2>4. \A n \in group_of(b) : filters[n].target = 0
      BY <1>1, <1>2, <2>1, TargetAsked
    <2> QED  BY <2>2, <2>3, <2>4 DEF AtRest
  <1> QED  BY <1>2, <1>3 DEF bypassed, AtRest

\* what is heard of a band is what is loaded, or nothing, and then the gain is nothing
LEMMA HeardNear ==
  ASSUME IInv, NEW b \in Bands
  PROVE  /\ filters[b] \in Filters /\ heard(b) \in Int /\ drift(b) \in Nat
         /\ Distance(heard(b), filters[b].gain) <= drift(b)
         /\ Distance(filters[b].loaded, filters[b].gain) <= drift(b)
         /\ bypassed(b) => heard(b) = 0 /\ filters[b].gain = 0
         /\ ~bypassed(b) => heard(b) = filters[b].loaded
  <1>1. filters[b] \in Filters /\ LoadedNear(filters[b])
    BY DEF IInv, FollowInv, TypeOK, HeardInv
  <1>2. drift(b) \in Nat /\ Distance(filters[b].loaded, filters[b].gain) <= drift(b)
    BY <1>1, Drift DEF drift, LoadedNear, Filters
  <1>3. CASE bypassed(b)
    <2>1. filters[b].gain = 0 /\ heard(b) = 0
      BY <1>3, BypassedAtRest DEF AtRest, IInv, heard
    <2>2. Distance(0, 0) = 0
      BY DEF Distance
    <2> QED  BY <1>1, <1>2, <1>3, <2>1, <2>2
  <1>4. CASE ~bypassed(b)
    BY <1>1, <1>2, <1>4 DEF heard, Filters
  <1> QED  BY <1>3, <1>4

LEMMA SoundSuffices ==
  ASSUME IInv
  PROVE  SoundFollowsSettings
  <1>1. FiltersFollow
    BY FollowSuffices DEF IInv
  <1> QED  BY <1>1, HeardNear DEF FiltersFollow, SoundFollowsSettings

\* What is heard follows the settings (HQEqualizer.cpp: process(); HQEqualizerBandCalculator.hpp: update()), up to
\* a step for every update that was not loaded, whatever millibel are set.
THEOREM SoundFollowsSettingsHolds == Spec => []SoundFollowsSettings
  <1>1. Init => IInv
    BY FollowInit, HeardInit DEF IInv
  <1>2. IInv /\ [Next]_vars => IInv'
    BY FollowNext, HeardNext DEF IInv
  <1>3. IInv => SoundFollowsSettings
    BY SoundSuffices
  <1> QED  BY <1>1, <1>2, <1>3, PTL DEF Spec

-----------------------------------------------------------------------------
(* The gains move by the steps of a block and by what was left unloaded.  *)

LEMMA MostBlocksTyped ==
  /\ MostBlocks \in Nat \ {0} /\ Step * (BlockSize \div UpdateBlock + 1) = MostBlocks * Step
  /\ MostBlocks * Step \in Nat
  <1> DEFINE q == BlockSize \div UpdateBlock
  <1>1. q \in Nat
    BY Division
  <1> HIDE DEF q
  <1>2. Step * (q + 1) = (q + 1) * Step /\ (q + 1) * Step \in Nat /\ q + 1 \in Nat \ {0}
    BY <1>1
  <1> QED  BY <1>2 DEF MostBlocks, q

\* how far the gain, and what is loaded, may come from what was loaded before
LEMMA MoveHeard ==
  ASSUME NEW f \in Filters, NEW g \in Filters, NEW turns \in Nat, NEW last \in {turns, turns + 1},
         Moves(f, g, turns, last), NEW d \in Nat, Distance(f.loaded, f.gain) <= d
  PROVE  /\ Distance(g.loaded, f.loaded) <= MostBlocks * Step + d
         /\ Distance(g.gain, f.loaded) <= MostBlocks * Step + d
  <1> DEFINE most == MostBlocks * Step
  <1>1. /\ g.gain = update(f, last).gain
        /\ g.loaded = IF turns = 0 THEN f.loaded ELSE update(f, turns).gain
        /\ turns <= MostBlocks /\ last <= MostBlocks /\ last \in Nat
    BY MostBlocksTyped DEF Moves
  <1>2. f.gain \in Int /\ f.loaded \in Int /\ g.gain \in Int /\ g.loaded \in Int
    BY DEF Filters
  <1>3. turns * Step <= most /\ last * Step <= most /\ most \in Nat /\ turns * Step \in Nat /\ last * Step \in Nat
    <2>1. MostBlocks \in Int /\ turns \in Int /\ last \in Int /\ Step \in Nat \ {0}
      BY <1>1, MostBlocksTyped
    <2>2. turns * Step <= most /\ last * Step <= most
      BY <1>1, <2>1, TimesOrder
    <2> QED  BY <1>1, <2>2, MostBlocksTyped, UpdateMoves
  <1>4. /\ Distance(update(f, last).gain, f.gain) <= last * Step
        /\ Distance(update(f, turns).gain, f.gain) <= turns * Step
    BY <1>1, UpdateMoves
  <1> HIDE DEF most
  <1>5. Distance(g.gain, f.gain) <= most
    <2> DEFINE n == last * Step
    <2>1. Distance(g.gain, f.gain) <= n /\ Distance(g.gain, f.gain) \in Int /\ n \in Int /\ n <= most
      BY <1>1, <1>2, <1>3, <1>4 DEF Distance
    <2> HIDE DEF n
    <2> QED  BY <1>3, <2>1
  <1>6. Distance(g.gain, f.loaded) <= most + d
    BY <1>2, <1>3, <1>5 DEF Distance
  <1>7. CASE turns = 0
    <2>1. Distance(g.loaded, f.loaded) = 0
      BY <1>1, <1>2, <1>7, DistanceTyped
    <2> QED  BY <1>3, <1>6, <2>1 DEF most
  <1>8. CASE turns # 0
    <2> DEFINE n == turns * Step
    <2>1. Distance(g.loaded, f.gain) <= n /\ n \in Int /\ n <= most /\ Distance(g.loaded, f.gain) \in Int
      BY <1>1, <1>2, <1>3, <1>4, <1>8 DEF Distance
    <2> HIDE DEF n
    <2>2. Distance(g.loaded, f.gain) <= most
      BY <1>3, <2>1
    <2>3. Distance(g.loaded, f.loaded) <= most + d
      BY <1>2, <1>3, <2>2 DEF Distance
    <2> QED  BY <1>6, <2>3 DEF most
  <1> QED  BY <1>7, <1>8

\* what is heard of every band is what is loaded, or nothing, as the bypass says
HeardIs ==
  \A b \in Bands : /\ bypassed(b) => heard(b) = 0 /\ filters[b].gain = 0
                   /\ ~bypassed(b) => heard(b) = filters[b].loaded
RestsBypassed == \A b \in Bands : bypassed(b) <=> AtRest(b)

HeardMoves ==
  \A b \in Bands : Distance(heard(b)', heard(b)) <= Step * (BlockSize \div UpdateBlock + 1) + drift(b)

LEMMA HeardSteps ==
  ASSUME IInv, [Next]_vars, HeardIs', RestsBypassed'
  PROVE  HeardMoves
  <1>1. FollowInv /\ HeardInv /\ TypeOK /\ SettingsInv
    BY DEF IInv, FollowInv
  <1> DEFINE most == MostBlocks * Step
  <1> SUFFICES ASSUME NEW b \in Bands PROVE Distance(heard(b)', heard(b)) <= most + drift(b)
    BY MostBlocksTyped DEF HeardMoves
  <1>2. /\ filters[b] \in Filters /\ filters[b].loaded \in Int /\ filters[b].gain \in Int
        /\ heard(b) \in Int /\ drift(b) \in Nat
        /\ Distance(filters[b].loaded, filters[b].gain) <= drift(b)
        /\ bypassed(b) => heard(b) = 0 /\ filters[b].gain = 0
        /\ ~bypassed(b) => heard(b) = filters[b].loaded
    BY HeardNear DEF Filters
  <1>3. /\ bypassed(b)' => heard(b)' = 0 /\ filters'[b].gain = 0
        /\ ~bypassed(b)' => heard(b)' = filters'[b].loaded
    BY DEF HeardIs
  <1>4. most \in Nat
    BY MostBlocksTyped
  <1> DEFINE d == drift(b)
  <1> HIDE DEF most, d
  <1>5. d \in Nat /\ Distance(filters[b].loaded, filters[b].gain) <= d
    BY <1>2 DEF d
  <1>6. ASSUME filters'[b].gain = filters[b].gain, filters'[b].loaded = filters[b].loaded
        PROVE  Distance(heard(b)', heard(b)) <= most + d
    BY <1>2, <1>3, <1>4, <1>5, <1>6 DEF Distance
  <1>7. CASE UNCHANGED held
    BY <1>6, <1>7 DEF held, d
  <1>8. CASE MixerPolls \/ MixerSuspends
    <2>1. pollFromMixerThread
      BY <1>8 DEF MixerPolls, MixerSuspends
    <2>2. filters'[b].gain = filters[b].gain /\ filters'[b].loaded = filters[b].loaded
      BY <1>1, <2>1, PollFilters
    <2> QED  BY <1>6, <2>2 DEF d
  <1>9. CASE MixerMixes
    <2>1. process /\ impl' = impl
      BY <1>9 DEF MixerMixes
    <2>2. /\ filters' \in [Bands -> Filters]
          /\ \A n \in Bands :
               \/ group_of(n) \cap active = {} /\ filters'[n] = filters[n] /\ n \notin updating'
               \/ /\ filters'[n].dirty => group_of(n) \subseteq updating'
                  /\ \E turns \in Nat : \E last \in {turns, turns + 1} : Moves(filters[n], filters'[n], turns, last)
      BY <1>1, <2>1, ProcessOutcome
    <2>3. /\ b \in group_of(b) /\ group_of(b) \subseteq Bands /\ group_of(b)' = group_of(b)
          /\ bypassed(b) <=> AtRest(b)
      BY <1>1, <2>1, BypassedAtRest DEF group_of, groups
    <2>4. CASE bypassed(b)
      <3>1. \A n \in group_of(b) : ~filters[n].dirty /\ filters[n].gain = 0
        BY <2>3, <2>4 DEF AtRest
      <3>2. ASSUME NEW n \in group_of(b) PROVE ~filters'[n].dirty /\ filters'[n].gain = 0
        <4>1. /\ filters[n] \in Filters /\ filters'[n] \in Filters /\ n \in Bands
              /\ ~filters[n].dirty => filters[n].gain = filters[n].target
          BY <1>1, <2>2, <2>3 DEF TypeOK, FollowInv, MovingInv
        <4>2. ASSUME NEW turns \in Nat, NEW last \in {turns, turns + 1}, Moves(filters[n], filters'[n], turns, last)
              PROVE  ~filters'[n].dirty /\ filters'[n].gain = 0
          BY <3>1, <4>1, <4>2, MoveSettles
        <4> QED  BY <2>2, <3>1, <4>1, <4>2
      <3>3. AtRest(b)'
        BY <2>3, <3>2 DEF AtRest
      <3>4. bypassed(b)'
        BY <3>3 DEF RestsBypassed
      <3>5. heard(b) = 0 /\ heard(b)' = 0
        BY <1>2, <1>3, <2>4, <3>4
      <3>6. Distance(0, 0) = 0
        BY DEF Distance
      <3> QED  BY <1>4, <1>5, <3>5, <3>6 DEF d
    <2>5. CASE ~bypassed(b)
      <3>1. CASE filters'[b] = filters[b]
        BY <1>6, <3>1 DEF d
      <3>2. ASSUME NEW turns \in Nat, NEW last \in {turns, turns + 1}, Moves(filters[b], filters'[b], turns, last)
            PROVE  Distance(heard(b)', heard(b)) <= most + d
        <4>1. /\ Distance(filters'[b].loaded, filters[b].loaded) <= most + d
              /\ Distance(filters'[b].gain, filters[b].loaded) <= most + d
          BY <1>2, <1>5, <2>2, <3>2, MoveHeard DEF most
        <4> QED  BY <1>2, <1>3, <2>5, <4>1
      <3> QED  BY <2>2, <3>1, <3>2 DEF d
    <2> QED  BY <2>4, <2>5
  <1>10. [Next]_vars => UNCHANGED held \/ MixerPolls \/ MixerSuspends \/ MixerMixes
    BY DEF Next, vars, handlerVars, mixerVars, held, setEnabled, setBandLevel, setAllBandLevel, Change, poll,
           suspend, resume, MixerResumes, MixerSleeps
  <1> QED  BY <1>7, <1>8, <1>9, <1>10

\* From one block to the next a band moves by the steps of its update blocks and what was left unloaded of it
\* (HQEqualizer.cpp: processBandSet(), processEdgeBand(), processMidBand()), whatever millibel are set.
THEOREM GainsMoveGraduallyHolds == Spec => GainsMoveGradually
  <1>1. Init => IInv
    BY FollowInit, HeardInit DEF IInv
  <1>2. IInv /\ [Next]_vars => IInv'
    BY FollowNext, HeardNext DEF IInv
  <1>3. IInv => HeardIs
    BY HeardNear DEF HeardIs
  <1>4. IInv => RestsBypassed
    BY BypassedAtRest DEF IInv, RestsBypassed
  <1>5. IInv' => HeardIs' /\ RestsBypassed'
    BY <1>3, <1>4, PTL
  <1>6. IInv /\ IInv' /\ [Next]_vars => [HeardMoves]_vars
    BY <1>5, HeardSteps
  <1> QED  BY <1>1, <1>2, <1>6, PTL DEF Spec, GainsMoveGradually, HeardMoves
=============================================================================
