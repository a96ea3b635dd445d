--------------------------- MODULE PidEngineProofs ---------------------------
(***************************************************************************)
(* Proofs about PidEngine, for every pool of effect blocks, every range of *)
(* levels, every host, and any number of controllers, tick callbacks and   *)
(* power transitions.                                                      *)
(***************************************************************************)
EXTENDS PidEngine, WellFoundedInduction, NaturalsInduction, TLAPS

(* An allocated block has an effect type: Set Effect keeps the one it has  *)
(* when it does not know the new one.                                      *)
Sound(g) == \A b \in Blocks : g.effects[b].allocated => g.effects[b].type \in EffectTypes
Typed == \A s \in Slots : Sound(slot[s].pid)

(* The event that was published last is the rumble the engine asks for.    *)
Told == \A s \in Slots : slot[s].pid_rumble \in {NotYet, Rumble(slot[s].pid)}

(* What is left of a controller and of the timer when the device goes      *)
(* down: power down stops the timer before the children are deleted, the   *)
(* stop of the device after that, when no write callback can start it.     *)
Power ==
  /\ pnp = "up" => ~stopping
  /\ pnp \in {"timer", "wait", "deleting", "down"} =>
       \A s \in Slots : slot[s].state \notin {"starting", "active"}
  /\ stopping /\ pnp \in {"timer", "wait", "down"} => \A s \in Slots : slot[s].state = "empty"
  /\ stopping /\ pnp = "down" => ~timer /\ \A t \in Ticks : tick[t] = "idle"
  /\ \A s \in Slots : slot[s].state = "empty" => writer[s] = "idle"
  /\ \A t \in Ticks : tick[t] = "leave" => stopping

(* Nothing plays before its controller is started, if hosts wait for that. *)
Quiet == \A s \in Slots : slot[s].state = "starting" => ~NeedsTick(slot[s].pid)

IInv == TypeOK /\ Typed /\ Told /\ Power
ClockInv == Quiet /\ ClockCoversEffects

-----------------------------------------------------------------------------
(* Arithmetic.  A part of a whole is between zero and the whole, with      *)
(* integer division and for either sign.                                   *)
LEMMA Quotient ==
  ASSUME NEW a \in Int, NEW b \in Nat \ {0}
  PROVE  /\ a \div b \in Int
         /\ b * (a \div b) <= a /\ a < b * (a \div b) + b
OBVIOUS

LEMMA Share ==
  ASSUME NEW x \in Nat, NEW y \in Nat, NEW z \in Nat \ {0}, y <= z
  PROVE  (x * y) \div z \in 0 .. x
<1> DEFINE q == (x * y) \div z
<1>1. x * y \in Nat /\ x * z \in Nat /\ x * y <= x * z
  OBVIOUS
<1>2. q \in Int /\ z * q <= x * y /\ x * y < z * q + z
  BY <1>1, Quotient
<1> HIDE DEF q
<1>3. q >= 0
  <2> SUFFICES ASSUME q <= -1 PROVE FALSE
    BY <1>2
  <2>1. z * q <= z * (-1)
    BY <1>2
  <2> QED BY <1>1, <1>2, <2>1
<1>4. q <= x
  <2> SUFFICES ASSUME q >= x + 1 PROVE FALSE
    BY <1>2
  <2>1. z * q >= z * (x + 1)
    BY <1>2
  <2>2. z * (x + 1) = x * z + z
    OBVIOUS
  <2> QED BY <1>1, <1>2, <2>1, <2>2
<1> QED BY <1>2, <1>3, <1>4 DEF q

LEMMA DivShare ==
  ASSUME NEW x \in Int, NEW y \in Nat, NEW z \in Nat \ {0}, y <= z
  PROVE  /\ Div(x * y, z) \in Int
         /\ x >= 0 => 0 <= Div(x * y, z) /\ Div(x * y, z) <= x
         /\ x <= 0 => x <= Div(x * y, z) /\ Div(x * y, z) <= 0
<1>1. CASE x >= 0
  <2>1. (x * y) \div z \in 0 .. x
    BY <1>1, Share
  <2>2. x * y >= 0
    BY <1>1
  <2>3. Div(x * y, z) = (x * y) \div z
    BY <2>2 DEF Div
  <2> QED BY <1>1, <2>1, <2>3
<1>2. CASE x < 0
  <2>1. ((-x) * y) \div z \in 0 .. -x
    <3>1. -x \in Nat
      BY <1>2
    <3> QED BY <3>1, Share
  <2>2. (-x) * y = -(x * y)
    OBVIOUS
  <2>3. CASE x * y >= 0
    <3>1. y = 0
      BY <1>2, <2>3
    <3>2. x * y = 0
      BY <3>1
    <3>3. Div(x * y, z) = 0
      BY <3>2 DEF Div
    <3> QED BY <1>2, <3>3
  <2>4. CASE x * y < 0
    <3>1. Div(x * y, z) = -((-(x * y)) \div z)
      BY <2>4 DEF Div
    <3> QED BY <1>2, <2>1, <2>2, <3>1
  <2> QED BY <2>3, <2>4
<1> QED BY <1>1, <1>2

LEMMA ClampValue ==
  ASSUME NEW n \in Int
  PROVE  /\ Clamp(n) \in 0 .. NominalMax
         /\ \A k \in Int : n <= k => Clamp(n) <= Clamp(k)
BY PidAssumption DEF Clamp

LEMMA DivInt ==
  ASSUME NEW a \in Int, NEW b \in Nat \ {0}
  PROVE  Div(a, b) \in Int
<1>1. -a \in Int
  OBVIOUS
<1> QED BY <1>1, Quotient DEF Div

(* What the host is told stays within the range of a motor.                *)
LEMMA ToRumbleValue ==
  ASSUME NEW n \in Int
  PROVE  ToRumble(n) \in 0 .. RumbleMax
<1> DEFINE c == Clamp(n)
<1>1. c \in Nat /\ c <= NominalMax
  BY ClampValue, PidAssumption
<1>2. NominalMax \in Nat \ {0} /\ RumbleMax \in Nat
  BY PidAssumption
<1> HIDE DEF c
<1>3. (RumbleMax * c) \div NominalMax \in 0 .. RumbleMax
  BY <1>1, <1>2, Share
<1>4. RumbleMax * c = c * RumbleMax
  BY <1>1, <1>2
<1> QED BY <1>3, <1>4 DEF ToRumble, c

-----------------------------------------------------------------------------
(* Envelopes.                                                              *)
LEMMA EffectFields ==
  ASSUME NEW e \in EffectRecord
  PROVE  /\ e.allocated \in BOOLEAN /\ e.playing \in BOOLEAN /\ e.type \in Types
         /\ e.duration \in Nat /\ e.start_delay \in 0 .. MaxElapsed /\ e.gain \in 0 .. GainMax
         /\ e.loop_count \in Nat /\ e.constant_magnitude \in Int /\ e.periodic_magnitude \in Nat
         /\ e.ramp_start \in Int /\ e.ramp_end \in Int
         /\ e.attack_level \in Nat /\ e.fade_level \in Nat
         /\ e.attack_ms \in Nat /\ e.fade_ms \in Nat /\ e.elapsed \in 0 .. MaxElapsed
         /\ e.start_delay \in Nat /\ e.elapsed \in Nat /\ e.gain \in Nat
BY PidAssumption DEF EffectRecord

LEMMA ExtremesOfThree ==
  ASSUME NEW a \in Int, NEW b \in Int, NEW c \in Int
  PROVE  /\ Min({a, b, c}) \in Int /\ \A x \in {a, b, c} : Min({a, b, c}) <= x
         /\ Max({a, b, c}) \in Int /\ \A x \in {a, b, c} : x <= Max({a, b, c})
<1>1. \E x \in {a, b, c} : \A y \in {a, b, c} : x <= y
  <2>1. CASE a <= b /\ a <= c
    BY <2>1
  <2>2. CASE b <= a /\ b <= c
    BY <2>2
  <2>3. CASE c <= a /\ c <= b
    BY <2>3
  <2> QED BY <2>1, <2>2, <2>3
<1>2. \E x \in {a, b, c} : \A y \in {a, b, c} : x >= y
  <2>1. CASE a >= b /\ a >= c
    BY <2>1
  <2>2. CASE b >= a /\ b >= c
    BY <2>2
  <2>3. CASE c >= a /\ c >= b
    BY <2>3
  <2> QED BY <2>1, <2>2, <2>3
<1>3. Min({a, b, c}) \in {a, b, c} /\ \A x \in {a, b, c} : Min({a, b, c}) <= x
  BY <1>1 DEF Min
<1>4. Max({a, b, c}) \in {a, b, c} /\ \A x \in {a, b, c} : Max({a, b, c}) >= x
  BY <1>2 DEF Max
<1> QED BY <1>3, <1>4

(* The attack goes from its level to the magnitude, the fade from there to *)
(* its own: neither leaves the interval between its ends.                  *)
LEMMA AttackBetween ==
  ASSUME NEW e \in EffectRecord, NEW at \in Nat, NEW m \in Int
  PROVE  /\ Attacked(e, at, m) \in Int
         /\ \/ e.attack_level <= Attacked(e, at, m) /\ Attacked(e, at, m) <= m
            \/ m <= Attacked(e, at, m) /\ Attacked(e, at, m) <= e.attack_level
            \/ Attacked(e, at, m) = m
<1>1. e.attack_level \in Nat /\ e.attack_ms \in Nat
  BY EffectFields
<1>2. CASE e.attack_ms # 0 /\ at < e.attack_ms
  <2> DEFINE d == Div((m - e.attack_level) * at, e.attack_ms)
  <2>1. /\ d \in Int
        /\ m - e.attack_level >= 0 => 0 <= d /\ d <= m - e.attack_level
        /\ m - e.attack_level <= 0 => m - e.attack_level <= d /\ d <= 0
    <3>1. m - e.attack_level \in Int /\ e.attack_ms \in Nat \ {0} /\ at <= e.attack_ms
      BY <1>1, <1>2
    <3> QED BY <3>1, DivShare
  <2>2. Attacked(e, at, m) = e.attack_level + d
    BY <1>2 DEF Attacked
  <2> HIDE DEF d
  <2> QED BY <1>1, <2>1, <2>2
<1>3. CASE ~(e.attack_ms # 0 /\ at < e.attack_ms)
  BY <1>3 DEF Attacked
<1> QED BY <1>2, <1>3

LEMMA FadeBetween ==
  ASSUME NEW e \in EffectRecord, NEW at \in Nat, NEW m \in Int,
         at <= e.duration, at >= FadeStart(e), e.duration # FadeStart(e)
  PROVE  /\ Faded(e, at, m) \in Int
         /\ \/ e.fade_level <= Faded(e, at, m) /\ Faded(e, at, m) <= m
            \/ m <= Faded(e, at, m) /\ Faded(e, at, m) <= e.fade_level
<1>1. e.fade_level \in Nat /\ e.duration \in Nat /\ e.fade_ms \in Nat
  BY EffectFields
<1>2. FadeStart(e) \in Nat /\ FadeStart(e) <= e.duration
  BY <1>1 DEF FadeStart
<1> DEFINE y == at - FadeStart(e)
           z == e.duration - FadeStart(e)
           d == Div((e.fade_level - m) * y, z)
<1>3. y \in Nat /\ z \in Nat \ {0} /\ y <= z
  BY <1>1, <1>2
<1>4. Faded(e, at, m) = m + d
  BY DEF Faded
<1> HIDE DEF y, z
<1>5. /\ d \in Int
      /\ e.fade_level - m >= 0 => 0 <= d /\ d <= e.fade_level - m
      /\ e.fade_level - m <= 0 => e.fade_level - m <= d /\ d <= 0
  <2>1. e.fade_level - m \in Int
    BY <1>1
  <2> QED BY <1>3, <2>1, DivShare
<1> HIDE DEF d
<1> QED BY <1>1, <1>4, <1>5

(* However far an effect has run, its fade is a number.                    *)
LEMMA FadedInt ==
  ASSUME NEW e \in EffectRecord, NEW at \in Nat, NEW m \in Int, e.duration # FadeStart(e)
  PROVE  Faded(e, at, m) \in Int
<1>1. e.fade_level \in Nat /\ e.duration \in Nat /\ e.fade_ms \in Nat
  BY EffectFields
<1>2. FadeStart(e) \in Nat /\ FadeStart(e) <= e.duration
  BY <1>1 DEF FadeStart
<1> DEFINE p == (e.fade_level - m) * (at - FadeStart(e))
           z == e.duration - FadeStart(e)
<1>3. p \in Int /\ z \in Nat \ {0}
  BY <1>1, <1>2
<1>4. Faded(e, at, m) = m + Div(p, z)
  BY DEF Faded
<1> HIDE DEF p, z
<1> QED BY <1>3, <1>4, DivInt

(* The fade only ever lowers what the attack leaves.                       *)
LEMMA EnvelopeBetween ==
  ASSUME NEW e \in EffectRecord, NEW at \in Nat, NEW m \in Int, NEW lo \in Int, NEW hi \in Int,
         lo <= m, lo <= e.attack_level, lo <= e.fade_level,
         m <= hi, e.attack_level <= hi, e.fade_level <= hi
  PROVE  /\ ApplyEnvelope(e, at, m) <= Clamp(hi)
         /\ e.duration = 0 \/ at <= e.duration => Clamp(lo) <= ApplyEnvelope(e, at, m)
<1> DEFINE a == Attacked(e, at, m)
           f == Faded(e, at, m)
           within == e.duration = 0 \/ at <= e.duration
           fading == e.duration # 0 /\ e.fade_ms # 0 /\ at >= FadeStart(e)
                       /\ e.duration # FadeStart(e)
           r == IF fading /\ f < a THEN f ELSE a
<1>1. e.attack_level \in Nat /\ e.fade_level \in Nat
  BY EffectFields
<1>2. a \in Int /\ lo <= a /\ a <= hi
  <2>1. /\ a \in Int
        /\ \/ e.attack_level <= a /\ a <= m
           \/ m <= a /\ a <= e.attack_level
           \/ a = m
    BY AttackBetween
  <2> HIDE DEF a
  <2> QED BY <1>1, <2>1
<1>3. fading => f \in Int
  BY FadedInt
<1>4. fading /\ within => lo <= f
  <2> SUFFICES ASSUME fading, within PROVE lo <= f
    OBVIOUS
  <2>1. /\ f \in Int
        /\ \/ e.fade_level <= f /\ f <= m
           \/ m <= f /\ f <= e.fade_level
    BY FadeBetween
  <2> HIDE DEF f
  <2> QED BY <1>1, <2>1
<1>5. ApplyEnvelope(e, at, m) = Clamp(r)
  BY DEF ApplyEnvelope
<1> HIDE DEF a, f, fading, within
<1>6. r \in Int /\ r <= hi /\ (within => lo <= r)
  BY <1>2, <1>3, <1>4
<1> HIDE DEF r
<1>7. Clamp(r) <= Clamp(hi) /\ (within => Clamp(lo) <= Clamp(r))
  BY <1>6, ClampValue
<1> QED BY <1>5, <1>7 DEF within

(* A magnitude is a number for every type of effect that is heard.         *)
LEMMA RawInt ==
  ASSUME NEW e \in EffectRecord, NEW at \in Nat, e.type \in {"constant_force", "ramp"} \cup Periodic
  PROVE  Raw(e, at) \in Int
<1>1. /\ e.constant_magnitude \in Int /\ e.ramp_start \in Int /\ e.ramp_end \in Int
      /\ e.duration \in Nat /\ e.periodic_magnitude \in Nat
  BY EffectFields
<1>2. CASE e.type = "constant_force"
  BY <1>1, <1>2 DEF Raw, Absolute
<1>3. CASE e.type = "ramp"
  <2> DEFINE t == IF at > e.duration THEN e.duration ELSE at
             d == IF e.duration = 0 THEN 0 ELSE Div((e.ramp_end - e.ramp_start) * t, e.duration)
  <2>1. d \in Int
    <3>1. (e.ramp_end - e.ramp_start) * t \in Int
      BY <1>1
    <3> HIDE DEF t
    <3> QED BY <1>1, <3>1, DivInt
  <2>2. Raw(e, at) = Absolute(e.ramp_start + d)
    BY <1>3 DEF Raw, Periodic
  <2> HIDE DEF d
  <2> QED BY <1>1, <2>1, <2>2 DEF Absolute
<1>4. CASE e.type \in Periodic
  BY <1>1, <1>4 DEF Raw, Periodic
<1> QED BY <1>2, <1>3, <1>4
LEMMA HullOfTypes == TypeOK /\ Typed => EnvelopeHull
<1> SUFFICES ASSUME TypeOK, Typed, NEW s \in Slots, NEW b \in Blocks
             PROVE  LET e == slot[s].pid.effects[b]
                        at == e.elapsed - e.start_delay
                        m == Raw(e, at)
                        levels == {m, e.attack_level, e.fade_level}
                    IN  (Heard(e) /\ e.type \notin Conditions)
                          => /\ ApplyEnvelope(e, at, m) <= Clamp(Max(levels))
                             /\ e.duration = 0 \/ at <= e.duration
                                  => Clamp(Min(levels)) <= ApplyEnvelope(e, at, m)
  BY DEF EnvelopeHull
<1> DEFINE e == slot[s].pid.effects[b]
           at == e.elapsed - e.start_delay
           m == Raw(e, at)
           levels == {m, e.attack_level, e.fade_level}
<1> SUFFICES ASSUME Heard(e), e.type \notin Conditions
             PROVE  /\ ApplyEnvelope(e, at, m) <= Clamp(Max(levels))
                    /\ e.duration = 0 \/ at <= e.duration
                         => Clamp(Min(levels)) <= ApplyEnvelope(e, at, m)
  OBVIOUS
<1>1. e \in EffectRecord
  <2>1. slot[s].pid \in Engine
    BY DEF TypeOK, SlotRecord
  <2> QED BY <2>1 DEF Engine
<1>2. e.type \in {"constant_force", "ramp"} \cup Periodic
  BY DEF Heard, Typed, Sound, EffectTypes
<1> HIDE DEF e
<1>3. at \in Nat /\ e.attack_level \in Int /\ e.fade_level \in Int
  BY <1>1, EffectFields DEF Heard
<1> HIDE DEF at
<1>4. m \in Int
  BY <1>1, <1>2, <1>3, RawInt
<1> HIDE DEF m
<1>5. /\ Min(levels) \in Int /\ \A x \in levels : Min(levels) <= x
      /\ Max(levels) \in Int /\ \A x \in levels : x <= Max(levels)
  BY <1>3, <1>4, ExtremesOfThree
<1> DEFINE lo == Min(levels)
           hi == Max(levels)
<1>6. /\ lo \in Int /\ hi \in Int
      /\ lo <= m /\ lo <= e.attack_level /\ lo <= e.fade_level
      /\ m <= hi /\ e.attack_level <= hi /\ e.fade_level <= hi
  BY <1>5
<1> HIDE DEF lo, hi
<1>7. /\ ApplyEnvelope(e, at, m) <= Clamp(hi)
      /\ e.duration = 0 \/ at <= e.duration => Clamp(lo) <= ApplyEnvelope(e, at, m)
  BY <1>1, <1>3, <1>4, <1>6, EnvelopeBetween
<1> QED BY <1>7 DEF lo, hi

-----------------------------------------------------------------------------
(* The rumble of an engine.                                                *)
LEMMA EngineFields ==
  ASSUME NEW g \in Engine
  PROVE  /\ g.effects \in [Blocks -> EffectRecord] /\ g.last_allocated \in 0 .. MaxEffects
         /\ g.load_status \in {"success", "full", "error"} /\ g.device_gain \in 0 .. GainMax
         /\ g.enabled \in BOOLEAN /\ g.paused \in BOOLEAN
BY DEF Engine

LEMMA LevelValue ==
  ASSUME NEW g \in Engine, NEW e \in EffectRecord, Heard(e),
         e.type \in {"constant_force", "ramp"} \cup Periodic
  PROVE  Level(g, e) \in 0 .. NominalMax
<1> DEFINE at == e.elapsed - e.start_delay
           v == ApplyEnvelope(e, at, Raw(e, at))
           w == (v * e.gain) \div GainMax
           x == (w * g.device_gain) \div GainMax
<1>1. at \in Nat /\ e.gain \in Int /\ g.device_gain \in Int /\ GainMax \in Nat \ {0}
  BY EffectFields, EngineFields, PidAssumption DEF Heard
<1>2. Level(g, e) = Clamp(x)
  BY DEF Level
<1> HIDE DEF at
<1>3. v \in Int
  <2>1. Raw(e, at) \in Int
    BY <1>1, RawInt
  <2>2. \E c \in Int : v = Clamp(c)
    <3>1. Attacked(e, at, Raw(e, at)) \in Int
      BY <1>1, <2>1, AttackBetween
    <3>2. e.duration # FadeStart(e) /\ at >= FadeStart(e) => Faded(e, at, Raw(e, at)) \in Int
      <4>1. e.duration \in Nat /\ e.fade_ms \in Nat /\ e.fade_level \in Nat
        BY EffectFields
      <4>2. FadeStart(e) \in Nat /\ FadeStart(e) <= e.duration
        BY <4>1 DEF FadeStart
      <4> SUFFICES ASSUME e.duration # FadeStart(e), at >= FadeStart(e)
                   PROVE  Faded(e, at, Raw(e, at)) \in Int
        OBVIOUS
      <4> DEFINE p == (e.fade_level - Raw(e, at)) * (at - FadeStart(e))
                 z == e.duration - FadeStart(e)
      <4>3. p \in Int
        BY <1>1, <2>1, <4>1, <4>2
      <4>4. z \in Nat \ {0}
        BY <4>1, <4>2
      <4>5. Faded(e, at, Raw(e, at)) = Raw(e, at) + Div(p, z)
        BY DEF Faded
      <4> HIDE DEF p, z
      <4> QED BY <2>1, <4>3, <4>4, <4>5, DivInt
    <3> QED BY <3>1, <3>2 DEF ApplyEnvelope
  <2> QED BY <2>2, ClampValue
<1> HIDE DEF v
<1>4. w \in Int
  <2>1. v * e.gain \in Int
    BY <1>1, <1>3
  <2> QED BY <1>1, <2>1, Quotient
<1> HIDE DEF w
<1>5. x \in Int
  <2>1. w * g.device_gain \in Int
    BY <1>1, <1>4
  <2> QED BY <1>1, <2>1, Quotient
<1> HIDE DEF x
<1> QED BY <1>2, <1>5, ClampValue

LEMMA LeastOf ==
  ASSUME NEW S \in SUBSET Nat, S # {}
  PROVE  \E m \in S : \A j \in S : m <= j
<1>1. PICK m \in S : \A j \in S : ~(<<j, m>> \in OpToRel(<, Nat))
  BY NatLessThanWellFounded, WFMin
<1>2. \A j \in S : m <= j
  <2> SUFFICES ASSUME NEW j \in S, j < m PROVE FALSE
    OBVIOUS
  <2>1. <<j, m>> \in OpToRel(<, Nat)
    BY Zenon DEF OpToRel
  <2> QED BY <1>1, <2>1
<1> QED BY <1>2

(* The greatest of some levels is one of them.                             *)
LEMMA GreatestLevel ==
  ASSUME NEW S \in SUBSET (0 .. NominalMax), S # {}
  PROVE  Max(S) \in S
<1> DEFINE T == {n \in Nat : n <= NominalMax /\ NominalMax - n \in S}
<1>1. NominalMax \in Nat
  BY PidAssumption
<1>2. T \in SUBSET Nat /\ T # {}
  <2>1. PICK x \in S : TRUE
    OBVIOUS
  <2>2. NominalMax - x \in T
    BY <1>1, <2>1
  <2> QED BY <2>2
<1>3. PICK m \in T : \A j \in T : m <= j
  BY <1>2, LeastOf
<1>4. NominalMax - m \in S /\ \A y \in S : NominalMax - m >= y
  <2>1. NominalMax - m \in S /\ m \in Nat
    BY <1>3
  <2>2. ASSUME NEW y \in S PROVE NominalMax - m >= y
    <3>1. NominalMax - y \in T /\ y \in Nat /\ y <= NominalMax
      BY <1>1
    <3> QED BY <1>1, <1>3, <2>1, <3>1
  <2> QED BY <2>1, <2>2
<1> QED BY <1>4 DEF Max

LEMMA StrongestValue ==
  ASSUME NEW g \in Engine, NEW types,
         types \subseteq {"constant_force", "ramp"} \cup Periodic
  PROVE  Strongest(g, types) \in Int
<1> DEFINE B == {c \in Blocks : Heard(g.effects[c]) /\ g.effects[c].type \in types}
           S == {0} \cup {Level(g, g.effects[b]) : b \in B}
<1>1. S \in SUBSET (0 .. NominalMax)
  <2>1. 0 \in 0 .. NominalMax
    BY PidAssumption
  <2>2. ASSUME NEW b \in B PROVE Level(g, g.effects[b]) \in 0 .. NominalMax
    BY EngineFields, LevelValue
  <2> QED BY <2>1, <2>2
<1>2. Max(S) \in S
  <2>1. S # {}
    OBVIOUS
  <2> HIDE DEF S
  <2> QED BY <1>1, <2>1, GreatestLevel
<1> QED BY <1>1, <1>2, PidAssumption DEF Strongest

(* An engine asks for a rumble the motors have.                            *)
LEMMA RumbleValue ==
  ASSUME NEW g \in Engine
  PROVE  Rumble(g) \in RumbleRange /\ Rumble(g) # NotYet
<1>1. 0 \in 0 .. RumbleMax /\ RumbleMax \in Nat
  BY PidAssumption
<1>2. /\ Strongest(g, {"constant_force", "ramp"}) \in Int
      /\ Strongest(g, Periodic) \in Int
  BY StrongestValue
<1>3. /\ ToRumble(Strongest(g, {"constant_force", "ramp"})) \in 0 .. RumbleMax
      /\ ToRumble(Strongest(g, Periodic)) \in 0 .. RumbleMax
  BY <1>2, ToRumbleValue
<1>4. Rumble(g) \in RumbleRange
  BY <1>1, <1>3 DEF Rumble, RumbleRange
<1>5. NotYet \notin RumbleRange
  <2>1. NotYet.low = -1 /\ -1 \notin 0 .. RumbleMax
    BY PidAssumption DEF NotYet
  <2> QED BY <2>1 DEF RumbleRange
<1> QED BY <1>4, <1>5
-----------------------------------------------------------------------------
(* The operations of the engine.                                           *)
LEMMA FreeEffectType == FreeEffect \in EffectRecord /\ ~FreeEffect.allocated
BY PidAssumption DEF FreeEffect, EffectRecord, Types

LEMMA ResetEngineType ==
  ResetEngine \in Engine /\ Sound(ResetEngine) /\ ~NeedsTick(ResetEngine)
BY FreeEffectType, PidAssumption DEF ResetEngine, Engine, Sound, NeedsTick

LEMMA StoppedType ==
  ASSUME NEW e \in EffectRecord
  PROVE  /\ Stopped(e) \in EffectRecord /\ ~Stopped(e).playing
         /\ Stopped(e).allocated = e.allocated /\ Stopped(e).type = e.type
<1>1. 0 \in 0 .. MaxElapsed
  BY PidAssumption
<1> QED BY <1>1 DEF Stopped, EffectRecord

LEMMA StopAllType ==
  ASSUME NEW g \in Engine, Sound(g)
  PROVE  StopAll(g) \in Engine /\ Sound(StopAll(g))
<1>1. \A b \in Blocks : g.effects[b] \in EffectRecord
  BY EngineFields
<1>2. StopAll(g).effects = [b \in Blocks |-> Stopped(g.effects[b])]
  BY DEF StopAll, Engine
<1>3. [b \in Blocks |-> Stopped(g.effects[b])] \in [Blocks -> EffectRecord]
  BY <1>1, StoppedType
<1>4. StopAll(g) \in Engine
  BY <1>3 DEF StopAll, Engine
<1>5. Sound(StopAll(g))
  BY <1>1, <1>2, StoppedType DEF Sound
<1> QED BY <1>4, <1>5

(* Replacing one block.                                                    *)
LEMMA OneBlock ==
  ASSUME NEW g \in Engine, Sound(g), NEW b \in Blocks, NEW e \in EffectRecord,
         e.allocated => e.type \in EffectTypes
  PROVE  /\ [g EXCEPT !.effects[b] = e] \in Engine
         /\ Sound([g EXCEPT !.effects[b] = e])
         /\ [g EXCEPT !.effects[b] = e].effects = [g.effects EXCEPT ![b] = e]
<1>1. [g EXCEPT !.effects[b] = e].effects = [g.effects EXCEPT ![b] = e]
  BY DEF Engine
<1>2. [g.effects EXCEPT ![b] = e] \in [Blocks -> EffectRecord]
  BY EngineFields
<1>3. [g EXCEPT !.effects[b] = e] \in Engine
  BY <1>2 DEF Engine
<1>4. Sound([g EXCEPT !.effects[b] = e])
  BY <1>1, EngineFields DEF Sound
<1> QED BY <1>1, <1>3, <1>4

LEMMA FirstFree ==
  ASSUME NEW S \in SUBSET Blocks, S # {}
  PROVE  Min(S) \in S
<1>1. S \in SUBSET Nat
  BY PidAssumption DEF Blocks
<1>2. PICK m \in S : \A j \in S : m <= j
  BY <1>1, LeastOf
<1> QED BY <1>2 DEF Min

(* A new block does not play: nothing is heard of it.                      *)
LEMMA CreateNewEffectType ==
  ASSUME NEW g \in Engine, Sound(g), NEW type
  PROVE  /\ CreateNewEffect(g, type) \in Engine /\ Sound(CreateNewEffect(g, type))
         /\ NeedsTick(CreateNewEffect(g, type)) => NeedsTick(g)
         /\ Rumble(CreateNewEffect(g, type)) = Rumble(g)
<1> DEFINE free == {b \in Blocks : ~g.effects[b].allocated}
           fresh == [FreeEffect EXCEPT !.allocated = TRUE, !.type = type, !.gain = GainMax]
           n == CreateNewEffect(g, type)
<1>1. CASE type \notin EffectTypes \/ free = {}
  <2>1. \E st \in {"full", "error"} : n = [g EXCEPT !.load_status = st]
    BY <1>1 DEF CreateNewEffect
  <2>2. PICK st \in {"full", "error"} : n = [g EXCEPT !.load_status = st]
    BY <2>1
  <2> HIDE DEF n
  <2>3. n \in Engine /\ n.effects = g.effects /\ n.device_gain = g.device_gain
          /\ n.enabled = g.enabled /\ n.paused = g.paused
    BY <2>2 DEF Engine
  <2>4. Sound(n) /\ NeedsTick(n) = NeedsTick(g)
    BY <2>3 DEF Sound, NeedsTick
  <2>5. Rumble(n) = Rumble(g)
    BY <2>3 DEF Rumble, Strongest, Level
  <2> QED BY <2>3, <2>4, <2>5 DEF n
<1>2. CASE type \in EffectTypes /\ free # {}
  <2> DEFINE b == Min(free)
             h == [g EXCEPT !.effects[b] = fresh]
  <2>1. b \in Blocks /\ ~g.effects[b].allocated
    BY <1>2, FirstFree
  <2>2. n = [h EXCEPT !.last_allocated = b, !.load_status = "success"]
    BY <1>2 DEF CreateNewEffect, Engine
  <2>3. fresh \in EffectRecord /\ fresh.type = type /\ ~fresh.playing
    <3>1. GainMax \in 0 .. GainMax /\ type \in Types
      BY <1>2, PidAssumption DEF Types
    <3>2. fresh.type = type /\ ~fresh.playing
      BY DEF FreeEffect
    <3>3. fresh \in EffectRecord
      BY <3>1, FreeEffectType DEF EffectRecord
    <3> QED BY <3>2, <3>3
  <2> HIDE DEF b, n, fresh
  <2>4. h \in Engine /\ Sound(h) /\ h.effects = [g.effects EXCEPT ![b] = fresh]
    BY <1>2, <2>1, <2>3, OneBlock
  <2>5. h.device_gain = g.device_gain /\ h.enabled = g.enabled /\ h.paused = g.paused
    BY DEF Engine
  <2> HIDE DEF h
  <2>6. /\ n \in Engine /\ n.effects = [g.effects EXCEPT ![b] = fresh]
        /\ n.device_gain = g.device_gain /\ n.enabled = g.enabled /\ n.paused = g.paused
    <3>1. b \in 0 .. MaxEffects
      BY <2>1, PidAssumption DEF Blocks
    <3> QED BY <2>2, <2>4, <2>5, <3>1 DEF Engine
  <2>7. Sound(n)
    BY <2>4, <2>6 DEF Sound
  <2>8. \A c \in Blocks : /\ c # b => n.effects[c] = g.effects[c]
                          /\ c = b => ~n.effects[c].playing /\ ~g.effects[c].allocated
    BY <2>1, <2>3, <2>6, EngineFields
  <2>9. NeedsTick(n) => NeedsTick(g)
    BY <2>8 DEF NeedsTick
  <2>10. ASSUME NEW types PROVE Strongest(n, types) = Strongest(g, types)
    <3> DEFINE Of(x) == {c \in Blocks : Heard(x.effects[c]) /\ x.effects[c].type \in types}
    <3>1. Of(n) = Of(g)
      BY <2>8 DEF Heard
    <3>2. \A c \in Of(g) : n.effects[c] = g.effects[c]
      BY <2>8 DEF Heard
    <3>3. \A c \in Of(g) : Level(n, n.effects[c]) = Level(g, g.effects[c])
      BY <2>6, <3>2 DEF Level
    <3>4. {Level(n, n.effects[c]) : c \in Of(n)} = {Level(g, g.effects[c]) : c \in Of(g)}
      BY <3>1, <3>3
    <3> QED BY <3>4 DEF Strongest
  <2>11. Rumble(n) = Rumble(g)
    BY <2>6, <2>10 DEF Rumble
  <2> QED BY <2>6, <2>7, <2>9, <2>11 DEF n
<1> QED BY <1>1, <1>2
LEMMA StartedType ==
  ASSUME NEW e \in EffectRecord, NEW loops \in Nat
  PROVE  /\ Started(e, loops) \in EffectRecord
         /\ Started(e, loops).allocated = e.allocated /\ Started(e, loops).type = e.type
<1>1. 0 \in 0 .. MaxElapsed
  BY PidAssumption
<1> QED BY <1>1 DEF Started, EffectRecord

(* The fields of a report, by its id.                                      *)
LEMMA ReportFields ==
  ASSUME NEW r \in PidReport
  PROVE  /\ r.id \in {"set_effect", "set_envelope", "set_condition", "block_free", "set_periodic",
                      "set_constant_force", "set_ramp_force", "effect_operation",
                      "device_control", "device_gain"}
         /\ r.id = "set_effect" => /\ r.type \in Types /\ r.duration \in Nat
                                   /\ r.start_delay \in 0 .. MaxElapsed /\ r.gain \in 0 .. GainMax
         /\ r.id = "set_envelope" => /\ r.attack_level \in Nat /\ r.fade_level \in Nat
                                     /\ r.attack_ms \in Nat /\ r.fade_ms \in Nat
         /\ r.id = "set_periodic" => r.magnitude \in Nat
         /\ r.id = "set_constant_force" => r.magnitude \in Int
         /\ r.id = "set_ramp_force" => r.ramp_start \in Int /\ r.ramp_end \in Int
         /\ r.id = "effect_operation" => r.loop_count \in Nat
         /\ r.id = "device_gain" => r.gain \in 0 .. GainMax
BY DEF PidReport

LEMMA SetBlockType ==
  ASSUME NEW e \in EffectRecord, NEW r \in PidReport, e.allocated, e.type \in EffectTypes,
         r.id \notin {"device_gain", "device_control", "effect_operation"}
  PROVE  /\ SetBlock(e, r) \in EffectRecord
         /\ SetBlock(e, r).allocated => SetBlock(e, r).type \in EffectTypes
<1>1. CASE r.id = "set_effect"
  <2> DEFINE t == IF r.type \in EffectTypes THEN r.type ELSE e.type
  <2>1. t \in EffectTypes /\ t \in Types
    BY DEF Types
  <2>2. SetBlock(e, r) = [e EXCEPT !.type = t, !.duration = r.duration,
                                   !.start_delay = r.start_delay, !.gain = r.gain]
    BY <1>1 DEF SetBlock
  <2>3. r.duration \in Nat /\ r.start_delay \in 0 .. MaxElapsed /\ r.gain \in 0 .. GainMax
    BY <1>1, ReportFields
  <2> HIDE DEF t
  <2>4. SetBlock(e, r) \in EffectRecord
    BY <2>1, <2>2, <2>3 DEF EffectRecord
  <2>5. SetBlock(e, r).type = t
    BY <2>2 DEF EffectRecord
  <2> QED BY <2>1, <2>4, <2>5
<1>2. CASE r.id = "set_envelope"
  <2>1. SetBlock(e, r) = [e EXCEPT !.attack_level = r.attack_level, !.fade_level = r.fade_level,
                                   !.attack_ms = r.attack_ms, !.fade_ms = r.fade_ms]
    BY <1>2 DEF SetBlock
  <2>2. /\ r.attack_level \in Nat /\ r.fade_level \in Nat /\ r.attack_ms \in Nat
        /\ r.fade_ms \in Nat
    BY <1>2, ReportFields
  <2>3. SetBlock(e, r) \in EffectRecord
    <3> DEFINE f == [e EXCEPT !.attack_level = r.attack_level, !.fade_level = r.fade_level]
    <3>1. f \in EffectRecord
      BY <2>2 DEF EffectRecord
    <3>2. SetBlock(e, r) = [f EXCEPT !.attack_ms = r.attack_ms, !.fade_ms = r.fade_ms]
      BY <2>1 DEF EffectRecord
    <3> HIDE DEF f
    <3> QED BY <2>2, <3>1, <3>2 DEF EffectRecord
  <2>4. SetBlock(e, r).type = e.type
    BY <2>1 DEF EffectRecord
  <2> QED BY <2>3, <2>4
<1>3. CASE r.id = "set_condition"
  BY <1>3 DEF SetBlock
<1>4. CASE r.id = "set_periodic"
  <2>1. SetBlock(e, r) = [e EXCEPT !.periodic_magnitude = r.magnitude]
    BY <1>4 DEF SetBlock
  <2> QED BY <1>4, <2>1, ReportFields DEF EffectRecord
<1>5. CASE r.id = "set_constant_force"
  <2>1. SetBlock(e, r) = [e EXCEPT !.constant_magnitude = r.magnitude]
    BY <1>5 DEF SetBlock
  <2> QED BY <1>5, <2>1, ReportFields DEF EffectRecord
<1>6. CASE r.id = "set_ramp_force"
  <2>1. SetBlock(e, r) = [e EXCEPT !.ramp_start = r.ramp_start, !.ramp_end = r.ramp_end]
    BY <1>6 DEF SetBlock
  <2> QED BY <1>6, <2>1, ReportFields DEF EffectRecord
<1>7. CASE r.id = "block_free"
  BY <1>7, FreeEffectType DEF SetBlock
<1> QED BY <1>1, <1>2, <1>3, <1>4, <1>5, <1>6, <1>7, ReportFields

LEMMA EffectOperationType ==
  ASSUME NEW g \in Engine, Sound(g), NEW r \in PidReport, r.id = "effect_operation",
         r.block \in Blocks, g.effects[r.block].allocated, r.operation \in Operations
  PROVE  EffectOperation(g, r) \in Engine /\ Sound(EffectOperation(g, r))
<1> DEFINE b == r.block
           loops == r.loop_count
<1>1. loops \in Nat
  BY ReportFields
<1>2. g.effects[b] \in EffectRecord /\ g.effects[b].type \in EffectTypes
  BY EngineFields DEF Sound
<1>3. CASE r.operation = "start"
  <2>1. EffectOperation(g, r) = [g EXCEPT !.effects[b] = Started(g.effects[b], loops)]
    BY <1>3 DEF EffectOperation
  <2>2. b \in Blocks
    OBVIOUS
  <2> HIDE DEF b, loops
  <2>3. /\ Started(g.effects[b], loops) \in EffectRecord
        /\ Started(g.effects[b], loops).type \in EffectTypes
    BY <1>1, <1>2, StartedType
  <2> QED BY <2>1, <2>2, <2>3, OneBlock
<1>4. CASE r.operation = "start_solo"
  <2> DEFINE h == StopAll(g)
  <2>1. h \in Engine /\ Sound(h)
    BY StopAllType
  <2>2. EffectOperation(g, r) = [h EXCEPT !.effects[b] = Started(h.effects[b], loops)]
    BY <1>4 DEF EffectOperation
  <2>3. h.effects[b] \in EffectRecord /\ h.effects[b].type \in EffectTypes
    <3>1. h.effects[b] = Stopped(g.effects[b])
      BY DEF StopAll, Engine
    <3> QED BY <1>2, <3>1, StoppedType
  <2>4. b \in Blocks
    OBVIOUS
  <2> HIDE DEF b, loops, h
  <2>5. /\ Started(h.effects[b], loops) \in EffectRecord
        /\ Started(h.effects[b], loops).type \in EffectTypes
    BY <1>1, <2>3, StartedType
  <2> QED BY <2>1, <2>2, <2>4, <2>5, OneBlock
<1>5. CASE r.operation = "stop"
  <2>1. EffectOperation(g, r) = [g EXCEPT !.effects[b] = Stopped(g.effects[b])]
    BY <1>5 DEF EffectOperation
  <2>2. b \in Blocks
    OBVIOUS
  <2> HIDE DEF b, loops
  <2> QED BY <1>2, <2>1, <2>2, StoppedType, OneBlock
<1> QED BY <1>3, <1>4, <1>5 DEF Operations

LEMMA DeviceControlType ==
  ASSUME NEW g \in Engine, Sound(g), NEW control \in Controls
  PROVE  DeviceControl(g, control) \in Engine /\ Sound(DeviceControl(g, control))
<1> DEFINE n == DeviceControl(g, control)
<1>1. CASE control = "stop_all_effects"
  BY <1>1, StopAllType DEF DeviceControl
<1>2. CASE control = "device_reset"
  BY <1>2, ResetEngineType DEF DeviceControl
<1>3. CASE control \notin {"stop_all_effects", "device_reset"}
  <2>1. n \in Engine /\ n.effects = g.effects
    BY <1>3 DEF DeviceControl, Controls, Engine
  <2> QED BY <2>1 DEF Sound
<1> QED BY <1>1, <1>2, <1>3

LEMMA ApplyPidOutputType ==
  ASSUME NEW g \in Engine, Sound(g), NEW r \in PidReport, Handled(g, r)
  PROVE  ApplyPidOutput(g, r) \in Engine /\ Sound(ApplyPidOutput(g, r))
<1>1. CASE r.id = "device_gain"
  <2>1. ApplyPidOutput(g, r) = [g EXCEPT !.device_gain = r.gain]
    BY <1>1 DEF ApplyPidOutput
  <2>2. ApplyPidOutput(g, r) \in Engine /\ ApplyPidOutput(g, r).effects = g.effects
    BY <1>1, <2>1, ReportFields DEF Engine
  <2> QED BY <2>2 DEF Sound
<1>2. CASE r.id = "device_control"
  BY <1>2, DeviceControlType DEF ApplyPidOutput, Handled
<1>3. CASE r.id = "effect_operation"
  BY <1>3, EffectOperationType DEF ApplyPidOutput, Handled
<1>4. CASE r.id \notin {"device_gain", "device_control", "effect_operation"}
  <2> DEFINE b == r.block
             e == SetBlock(g.effects[b], r)
  <2>1. b \in Blocks /\ g.effects[b].allocated
    BY <1>4 DEF Handled
  <2>2. g.effects[b] \in EffectRecord /\ g.effects[b].type \in EffectTypes
    BY <2>1, EngineFields DEF Sound
  <2>3. e \in EffectRecord /\ (e.allocated => e.type \in EffectTypes)
    BY <1>4, <2>1, <2>2, SetBlockType
  <2>4. ApplyPidOutput(g, r) = [g EXCEPT !.effects[b] = e]
    BY <1>4 DEF ApplyPidOutput
  <2> HIDE DEF b, e
  <2> QED BY <2>1, <2>3, <2>4, OneBlock
<1> QED BY <1>1, <1>2, <1>3, <1>4

(* One tick of an effect; the clock starts none.                           *)
LEMMA AdvancedType ==
  ASSUME NEW e \in EffectRecord
  PROVE  /\ Advanced(e) \in EffectRecord
         /\ Advanced(e).allocated = e.allocated /\ Advanced(e).type = e.type
         /\ Advanced(e).playing => e.playing
<1> DEFINE t == Min({e.elapsed + 1, MaxElapsed})
<1>1. t \in 0 .. MaxElapsed
  <2>1. e.elapsed \in Nat /\ MaxElapsed \in Nat
    BY EffectFields, PidAssumption
  <2>2. \E x \in {e.elapsed + 1, MaxElapsed} : \A y \in {e.elapsed + 1, MaxElapsed} : x <= y
    BY <2>1
  <2>3. t \in {e.elapsed + 1, MaxElapsed} /\ t <= MaxElapsed
    BY <2>2 DEF Min
  <2> QED BY <2>1, <2>3
<1>2. e.start_delay \in 0 .. MaxElapsed /\ e.loop_count \in Nat
  BY EffectFields
<1>3. \/ Advanced(e) = e
      \/ Advanced(e) = [e EXCEPT !.elapsed = t]
      \/ Advanced(e) = [e EXCEPT !.elapsed = e.start_delay]
      \/ /\ e.loop_count > 1
         /\ Advanced(e) = [e EXCEPT !.loop_count = e.loop_count - 1, !.elapsed = e.start_delay]
      \/ Advanced(e) = Stopped(e)
  BY DEF Advanced
<1> HIDE DEF t
<1>4. CASE e.loop_count > 1 /\ Advanced(e) = [e EXCEPT !.loop_count = e.loop_count - 1,
                                                       !.elapsed = e.start_delay]
  <2>1. e.loop_count - 1 \in Nat
    BY <1>2, <1>4
  <2> QED BY <1>2, <1>4, <2>1 DEF EffectRecord
<1>5. CASE Advanced(e) = [e EXCEPT !.elapsed = t]
  BY <1>1, <1>5 DEF EffectRecord
<1>6. CASE Advanced(e) = [e EXCEPT !.elapsed = e.start_delay]
  BY <1>2, <1>6 DEF EffectRecord
<1>7. CASE Advanced(e) = e
  BY <1>7
<1>8. CASE Advanced(e) = Stopped(e)
  BY <1>8, StoppedType
<1> QED BY <1>3, <1>4, <1>5, <1>6, <1>7, <1>8

LEMMA AdvanceType ==
  ASSUME NEW g \in Engine, Sound(g)
  PROVE  /\ Advance(g) \in Engine /\ Sound(Advance(g))
         /\ NeedsTick(Advance(g)) => NeedsTick(g)
<1> DEFINE n == Advance(g)
<1>1. CASE g.paused
  BY <1>1 DEF Advance
<1>2. CASE ~g.paused
  <2>1. \A b \in Blocks : g.effects[b] \in EffectRecord
    BY EngineFields
  <2>2. [b \in Blocks |-> Advanced(g.effects[b])] \in [Blocks -> EffectRecord]
    BY <2>1, AdvancedType
  <2>3. n \in Engine /\ n.effects = [b \in Blocks |-> Advanced(g.effects[b])]
    BY <1>2, <2>2 DEF Advance, Engine
  <2> HIDE DEF n
  <2>4. \A b \in Blocks : /\ n.effects[b].allocated = g.effects[b].allocated
                          /\ n.effects[b].type = g.effects[b].type
                          /\ n.effects[b].playing => g.effects[b].playing
    BY <2>1, <2>3, AdvancedType
  <2>5. Sound(n)
    BY <2>4 DEF Sound
  <2>6. NeedsTick(n) => NeedsTick(g)
    BY <2>4 DEF NeedsTick
  <2> QED BY <2>3, <2>5, <2>6 DEF n
<1> QED BY <1>1, <1>2
-----------------------------------------------------------------------------
(* The slots.                                                              *)
Fit(r) == r \in SlotRecord /\ Sound(r.pid) /\ r.pid_rumble \in {NotYet, Rumble(r.pid)}

LEMMA FitSlots ==
  TypeOK /\ Typed /\ Told <=> TypeOK /\ \A s \in Slots : Fit(slot[s])
BY DEF TypeOK, Typed, Told, Fit

LEMMA SlotFields ==
  ASSUME NEW r \in SlotRecord
  PROVE  /\ r.state \in {"empty", "starting", "active", "stopping"} /\ r.pid \in Engine
         /\ r.pid_rumble \in RumbleRange \cup {NotYet} /\ r.feedback \in RumbleRange
         /\ r.pending \in BOOLEAN /\ r.source \in {"pid", "generic"} /\ r.seen \in RumbleRange
BY DEF SlotRecord

LEMMA EmptySlotFits ==
  Fit(EmptySlot) /\ Fit([EmptySlot EXCEPT !.state = "starting"])
<1>1. Silence \in RumbleRange
  BY PidAssumption DEF Silence, RumbleRange
<1>2. EmptySlot \in SlotRecord /\ [EmptySlot EXCEPT !.state = "starting"] \in SlotRecord
  BY <1>1, ResetEngineType DEF EmptySlot, SlotRecord
<1>3. /\ EmptySlot.pid = ResetEngine /\ EmptySlot.pid_rumble = NotYet
      /\ [EmptySlot EXCEPT !.state = "starting"].pid = ResetEngine
      /\ [EmptySlot EXCEPT !.state = "starting"].pid_rumble = NotYet
  BY DEF EmptySlot
<1> QED BY <1>2, <1>3, ResetEngineType DEF Fit

(* publish_pid_rumble tells every change.                                  *)
LEMMA PublishFits ==
  ASSUME NEW r \in SlotRecord, Sound(r.pid)
  PROVE  /\ Fit(Publish(r)) /\ Publish(r).pid = r.pid /\ Publish(r).state = r.state
         /\ r.pid_rumble # Rumble(r.pid) =>
              Publish(r).pending /\ Publish(r).feedback = Rumble(r.pid)
<1>1. Rumble(r.pid) \in RumbleRange
  BY SlotFields, RumbleValue
<1>2. CASE r.pid_rumble = Rumble(r.pid)
  BY <1>2 DEF Publish, Fit
<1>3. CASE r.pid_rumble # Rumble(r.pid)
  <2> DEFINE n == Publish(r)
             x == Rumble(r.pid)
  <2>1. n = [r EXCEPT !.pid_rumble = x, !.feedback = x, !.pending = TRUE, !.source = "pid"]
    BY <1>3 DEF Publish
  <2> HIDE DEF n
  <2>2. n \in SlotRecord
    <3> HIDE DEF x
    <3> QED BY <1>1, <2>1 DEF SlotRecord, x
  <2>3. n.pid = r.pid /\ n.state = r.state /\ n.pid_rumble = x /\ n.feedback = x /\ n.pending
    BY <2>1 DEF SlotRecord
  <2> QED BY <2>2, <2>3 DEF Fit, n
<1> QED BY <1>2, <1>3

(* What a step does to one slot.  A change of the rumble of a controller   *)
(* that is and stays active is told.                                       *)
Change(a, b) ==
  /\ Fit(b)
  /\ a.state = "active" /\ b.state = "active" /\ Rumble(a.pid) # Rumble(b.pid) =>
       b.pending /\ b.feedback = Rumble(b.pid)

LEMMA SameEngine ==
  ASSUME NEW a, NEW b \in SlotRecord, Fit(a), b.pid = a.pid, b.pid_rumble = a.pid_rumble
  PROVE  Change(a, b)
BY DEF Fit, Change

LEMMA NewEngine ==
  ASSUME NEW a, Fit(a), NEW g \in Engine, Sound(g)
  PROVE  /\ Change(a, Publish([a EXCEPT !.pid = g]))
         /\ Publish([a EXCEPT !.pid = g]).pid = g
         /\ Publish([a EXCEPT !.pid = g]).state = a.state
<1> DEFINE r == [a EXCEPT !.pid = g]
<1>1. r \in SlotRecord /\ r.pid = g /\ r.pid_rumble = a.pid_rumble /\ r.state = a.state
  BY DEF Fit, SlotRecord
<1>2. Rumble(g) # NotYet
  BY RumbleValue
<1> HIDE DEF r
<1>3. Rumble(a.pid) # Rumble(g) => r.pid_rumble # Rumble(r.pid)
  BY <1>1, <1>2 DEF Fit
<1>4. /\ Fit(Publish(r)) /\ Publish(r).pid = g /\ Publish(r).state = a.state
      /\ r.pid_rumble # Rumble(r.pid) => Publish(r).pending /\ Publish(r).feedback = Rumble(g)
  BY <1>1, PublishFits
<1>5. Change(a, Publish(r))
  BY <1>3, <1>4 DEF Change
<1> QED BY <1>4, <1>5 DEF r

LEMMA OneSlot ==
  ASSUME TypeOK, \A u \in Slots : Fit(slot[u]), NEW s \in Slots, NEW x, Change(slot[s], x),
         slot' = [slot EXCEPT ![s] = x]
  PROVE  /\ slot' \in [Slots -> SlotRecord]
         /\ \A u \in Slots : Change(slot[u], slot'[u])
BY DEF TypeOK, Change, Fit
(* Every step changes the slots so.                                        *)
LEMMA SlotsStep ==
  ASSUME TypeOK, \A u \in Slots : Fit(slot[u]), [Next]_vars
  PROVE  /\ slot' \in [Slots -> SlotRecord]
         /\ \A u \in Slots : Change(slot[u], slot'[u])
<1> DEFINE Goal == /\ slot' \in [Slots -> SlotRecord]
                   /\ \A u \in Slots : Change(slot[u], slot'[u])
<1>1. ASSUME slot' = slot PROVE Goal
  BY <1>1 DEF TypeOK, Change
<1>2. ASSUME NEW s \in Slots, CreateAdmit(s) PROVE Goal
  <2> DEFINE x == [EmptySlot EXCEPT !.state = "starting"]
  <2>1. slot' = [slot EXCEPT ![s] = x] /\ slot[s].state = "empty"
    BY <1>2 DEF CreateAdmit
  <2>2. Change(slot[s], x)
    BY <2>1, EmptySlotFits DEF Change
  <2> QED BY <2>1, <2>2, OneSlot
<1>3. ASSUME NEW s \in Slots, CreateAdopt(s) PROVE Goal
  <2> DEFINE x == IF powered /\ ~stopping THEN [slot[s] EXCEPT !.state = "active"]
                  ELSE [slot[s] EXCEPT !.state = "stopping", !.pending = FALSE]
  <2>1. slot' = [slot EXCEPT ![s] = x]
    BY <1>3 DEF CreateAdopt
  <2>2. x \in SlotRecord /\ x.pid = slot[s].pid /\ x.pid_rumble = slot[s].pid_rumble
    BY DEF Fit, SlotRecord
  <2> HIDE DEF x
  <2> QED BY <2>1, <2>2, SameEngine, OneSlot
<1>4. ASSUME NEW s \in Slots, DestroyMark(s) PROVE Goal
  <2> DEFINE x == [slot[s] EXCEPT !.state = "stopping", !.pending = FALSE]
  <2>1. slot' = [slot EXCEPT ![s] = x]
    BY <1>4 DEF DestroyMark, TypeOK, SlotRecord
  <2>2. x \in SlotRecord /\ x.pid = slot[s].pid /\ x.pid_rumble = slot[s].pid_rumble
    BY DEF Fit, SlotRecord
  <2> HIDE DEF x
  <2> QED BY <2>1, <2>2, SameEngine, OneSlot
<1>5. ASSUME NEW s \in Slots, Deleted(s) PROVE Goal
  <2>1. slot' = [slot EXCEPT ![s] = EmptySlot] /\ slot[s].state = "stopping"
    BY <1>5 DEF Deleted
  <2>2. Change(slot[s], EmptySlot)
    BY <2>1, EmptySlotFits DEF Change
  <2> QED BY <2>1, <2>2, OneSlot
<1>6. ASSUME NEW s \in Slots, NEW type \in Created, SetFeature(s, type) PROVE Goal
  <2> DEFINE g == CreateNewEffect(slot[s].pid, type)
             x == [slot[s] EXCEPT !.pid = g]
  <2>1. slot' = [slot EXCEPT ![s] = x]
    BY <1>6 DEF SetFeature
  <2>2. g \in Engine /\ Sound(g) /\ Rumble(g) = Rumble(slot[s].pid)
    BY SlotFields, CreateNewEffectType DEF Fit
  <2> HIDE DEF g
  <2>3. x \in SlotRecord /\ x.pid = g /\ x.pid_rumble = slot[s].pid_rumble
    BY <2>2 DEF Fit, SlotRecord
  <2> HIDE DEF x
  <2>4. Change(slot[s], x)
    BY <2>2, <2>3 DEF Change, Fit
  <2> QED BY <2>1, <2>4, OneSlot
<1>7. ASSUME NEW s \in Slots, NEW r \in Reports, WritePid(s, r) PROVE Goal
  <2> DEFINE g == ApplyPidOutput(slot[s].pid, r)
             x == Publish([slot[s] EXCEPT !.pid = g])
  <2>1. slot' = [slot EXCEPT ![s] = x] /\ Handled(slot[s].pid, r)
    BY <1>7, Zenon DEF WritePid
  <2>2. g \in Engine /\ Sound(g)
    BY <2>1, SlotFields, ApplyPidOutputType, ReportAssumption DEF Fit
  <2> HIDE DEF g
  <2>3. Change(slot[s], x)
    BY <2>2, NewEngine
  <2> HIDE DEF x
  <2> QED BY <2>1, <2>3, OneSlot
<1>8. ASSUME NEW s \in Slots, WriteGeneric(s) PROVE Goal
  <2> DEFINE x == [slot[s] EXCEPT !.feedback = GenericRumble, !.pending = TRUE,
                                  !.source = "generic"]
  <2>1. slot' = [slot EXCEPT ![s] = x]
    BY <1>8 DEF WriteGeneric, TypeOK, SlotRecord
  <2>2. GenericRumble \in RumbleRange
    BY PidAssumption DEF GenericRumble, RumbleRange
  <2>3. x \in SlotRecord /\ x.pid = slot[s].pid /\ x.pid_rumble = slot[s].pid_rumble
    BY <2>2 DEF Fit, SlotRecord
  <2> HIDE DEF x
  <2> QED BY <2>1, <2>3, SameEngine, OneSlot
<1>9. ASSUME NEW s \in Slots, PollFeedback(s) PROVE Goal
  <2> DEFINE x == [slot[s] EXCEPT !.pending = FALSE, !.seen = slot[s].feedback]
  <2>1. slot' = [slot EXCEPT ![s] = x]
    BY <1>9 DEF PollFeedback, TypeOK, SlotRecord
  <2>2. x \in SlotRecord /\ x.pid = slot[s].pid /\ x.pid_rumble = slot[s].pid_rumble
    BY SlotFields DEF Fit, SlotRecord
  <2> HIDE DEF x
  <2> QED BY <2>1, <2>2, SameEngine, OneSlot
<1>10. ASSUME NEW t \in Ticks, TickPlay(t) PROVE Goal
  <2> DEFINE x(s) == Publish([slot[s] EXCEPT !.pid = Advance(slot[s].pid)])
  <2>1. slot' = [s \in Slots |-> IF slot[s].state = "active" THEN x(s) ELSE slot[s]]
    BY <1>10 DEF TickPlay
  <2>2. ASSUME NEW s \in Slots PROVE Change(slot[s], x(s))
    <3>1. Advance(slot[s].pid) \in Engine /\ Sound(Advance(slot[s].pid))
      BY SlotFields, AdvanceType DEF Fit
    <3> QED BY <3>1, NewEngine
  <2> HIDE DEF x
  <2>3. \A s \in Slots : Change(slot[s], slot[s])
    BY DEF Change
  <2> QED BY <2>1, <2>2, <2>3 DEF Change, Fit
<1>11. ASSUME DownMark PROVE Goal
  <2> DEFINE x(s) == [slot[s] EXCEPT !.state = "stopping", !.pending = FALSE]
  <2>1. slot' = [s \in Slots |-> IF slot[s].state = "active" THEN x(s) ELSE slot[s]]
    BY <1>11 DEF DownMark
  <2>2. ASSUME NEW s \in Slots PROVE Change(slot[s], x(s))
    <3>1. x(s) \in SlotRecord /\ x(s).pid = slot[s].pid /\ x(s).pid_rumble = slot[s].pid_rumble
      BY DEF Fit, SlotRecord
    <3> QED BY <3>1, SameEngine
  <2> HIDE DEF x
  <2>3. \A s \in Slots : Change(slot[s], slot[s])
    BY DEF Change
  <2> QED BY <2>1, <2>2, <2>3 DEF Change, Fit
<1>12. ASSUME NEW s \in Slots, WriteStartsTimer(s) PROVE Goal
  BY <1>1, <1>12 DEF WriteStartsTimer
<1>13. ASSUME NEW t \in Ticks, TickStep(t) PROVE Goal
  BY <1>1, <1>13 DEF TickStep, TickStop, TickRecheck, TickRestart
<1>14. ASSUME Down \/ PowerUp, ~DownMark PROVE Goal
  BY <1>1, <1>14 DEF Down, PowerUp, DownIntent, DownStopTimer, DownWait, DownDeleted
<1>15. ASSUME UNCHANGED vars PROVE Goal
  BY <1>1, <1>15 DEF vars
<1> HIDE DEF Goal
<1>16. Goal
  BY <1>2, <1>3, <1>4, <1>5, <1>6, <1>7, <1>8, <1>9, <1>10, <1>11, <1>12, <1>13, <1>14, <1>15
     DEF Next, Host
<1> QED BY <1>16 DEF Goal

-----------------------------------------------------------------------------
(* The other variables.                                                    *)
LEMMA RestStep ==
  ASSUME TypeOK, [Next]_vars
  PROVE  /\ writer' \in [Slots -> {"idle", "arm"}]
         /\ tick' \in [Ticks -> {"idle", "stop", "leave", "recheck", "restart"}]
         /\ timer' \in BOOLEAN
         /\ pnp' \in {"up", "intent", "timer", "wait", "deleting", "down"}
         /\ powered' \in BOOLEAN /\ stopping' \in BOOLEAN
         /\ writes' \in 0 .. MaxWrites /\ lives' \in 0 .. MaxLives /\ downs' \in 0 .. MaxDowns
<1> DEFINE Goal == /\ writer' \in [Slots -> {"idle", "arm"}]
                   /\ tick' \in [Ticks -> {"idle", "stop", "leave", "recheck", "restart"}]
                   /\ timer' \in BOOLEAN
                   /\ pnp' \in {"up", "intent", "timer", "wait", "deleting", "down"}
                   /\ powered' \in BOOLEAN /\ stopping' \in BOOLEAN
                   /\ writes' \in 0 .. MaxWrites /\ lives' \in 0 .. MaxLives
                   /\ downs' \in 0 .. MaxDowns
<1>1. /\ writer \in [Slots -> {"idle", "arm"}]
      /\ tick \in [Ticks -> {"idle", "stop", "leave", "recheck", "restart"}]
      /\ timer \in BOOLEAN
      /\ pnp \in {"up", "intent", "timer", "wait", "deleting", "down"}
      /\ powered \in BOOLEAN /\ stopping \in BOOLEAN
      /\ writes \in 0 .. MaxWrites /\ lives \in 0 .. MaxLives /\ downs \in 0 .. MaxDowns
  BY DEF TypeOK
<1>2. MaxWrites \in Nat /\ MaxLives \in Nat /\ MaxDowns \in Nat
  BY PidAssumption
<1>3. ASSUME NEW s \in Slots, CreateAdmit(s) PROVE Goal
  BY <1>1, <1>2, <1>3 DEF CreateAdmit
<1>4. ASSUME NEW s \in Slots, CreateAdopt(s) \/ DestroyMark(s) \/ Deleted(s) \/ PollFeedback(s)
      PROVE  Goal
  BY <1>1, <1>4 DEF CreateAdopt, DestroyMark, Deleted, PollFeedback
<1>5. ASSUME NEW s \in Slots, Host(s) PROVE Goal
  <2>1. /\ writes' \in 0 .. MaxWrites
        /\ UNCHANGED <<timer, tick, pnp, powered, stopping, lives, downs>>
    <3>1. writes < MaxWrites /\ writes' = writes + 1
      BY <1>5 DEF Host, SetFeature, WritePid, WriteGeneric, HostMayWrite
    <3>2. UNCHANGED <<timer, tick, pnp, powered, stopping, lives, downs>>
      BY <1>5 DEF Host, SetFeature, WritePid, WriteGeneric
    <3> QED BY <1>1, <1>2, <3>1, <3>2
  <2>2. \/ writer' = writer
        \/ \E v \in {"idle", "arm"} : writer' = [writer EXCEPT ![s] = v]
    BY <1>5 DEF Host, SetFeature, WritePid, WriteGeneric
  <2> QED BY <1>1, <2>1, <2>2
<1>6. ASSUME NEW s \in Slots, WriteStartsTimer(s) PROVE Goal
  BY <1>1, <1>6 DEF WriteStartsTimer
<1>7. ASSUME NEW t \in Ticks, TickPlay(t) PROVE Goal
  <2>1. \E v \in {"leave", "stop", "idle"} : tick' = [tick EXCEPT ![t] = v]
    BY <1>7 DEF TickPlay
  <2>2. UNCHANGED <<writer, timer, pnp, powered, stopping, writes, lives, downs>>
    BY <1>7 DEF TickPlay
  <2> QED BY <1>1, <2>1, <2>2
<1>8. ASSUME NEW t \in Ticks, TickStep(t) PROVE Goal
  <2>1. \E v \in {"recheck", "restart", "idle"} : tick' = [tick EXCEPT ![t] = v]
    BY <1>8 DEF TickStep, TickStop, TickRecheck, TickRestart
  <2>2. timer' \in BOOLEAN /\ UNCHANGED <<writer, pnp, powered, stopping, writes, lives, downs>>
    BY <1>1, <1>8 DEF TickStep, TickStop, TickRecheck, TickRestart
  <2> QED BY <1>1, <2>1, <2>2
<1>9. ASSUME Down \/ PowerUp PROVE Goal
  <2>1. CASE \E kind \in {"power", "stop"} : DownIntent(kind)
    <3>1. /\ downs < MaxDowns /\ downs' = downs + 1 /\ powered' = FALSE /\ stopping' \in BOOLEAN
          /\ pnp' = "intent" /\ UNCHANGED <<writer, timer, tick, writes, lives>>
      BY <2>1 DEF DownIntent
    <3>2. downs' \in 0 .. MaxDowns
      BY <1>1, <1>2, <3>1
    <3> QED BY <1>1, <3>1, <3>2
  <2>2. CASE DownMark
    BY <1>1, <2>2 DEF DownMark
  <2>3. CASE DownStopTimer \/ DownWait \/ DownDeleted \/ PowerUp
    BY <1>1, <2>3 DEF DownStopTimer, DownWait, DownDeleted, PowerUp
  <2> QED BY <1>9, <2>1, <2>2, <2>3 DEF Down
<1>10. ASSUME UNCHANGED vars PROVE Goal
  BY <1>1, <1>10 DEF vars
<1> HIDE DEF Goal
<1>11. Goal
  BY <1>3, <1>4, <1>5, <1>6, <1>7, <1>8, <1>9, <1>10 DEF Next
<1> QED BY <1>11 DEF Goal

(* How a slot's state moves.                                               *)
LEMMA PowerStep ==
  ASSUME TypeOK, Power, \A u \in Slots : Fit(slot[u]), [Next]_vars
  PROVE  Power'
<1>1. slot \in [Slots -> SlotRecord] /\ writer \in [Slots -> {"idle", "arm"}]
        /\ tick \in [Ticks -> {"idle", "stop", "leave", "recheck", "restart"}]
  BY DEF TypeOK
<1>2. ASSUME NEW s \in Slots, CreateAdmit(s) PROVE Power'
  <2>1. /\ slot' = [slot EXCEPT ![s] = [EmptySlot EXCEPT !.state = "starting"]]
        /\ pnp = "up" /\ UNCHANGED <<writer, timer, tick, pnp, stopping>>
    BY <1>2 DEF CreateAdmit
  <2>2. [EmptySlot EXCEPT !.state = "starting"].state = "starting"
    BY DEF EmptySlot
  <2> QED BY <1>1, <2>1, <2>2 DEF Power
<1>3. ASSUME NEW s \in Slots, CreateAdopt(s) PROVE Power'
  <2>1. /\ slot[s].state = "starting" /\ UNCHANGED <<writer, timer, tick, pnp, stopping>>
        /\ \A u \in Slots : u # s => slot'[u] = slot[u]
        /\ slot'[s].state \in {"active", "stopping"}
    BY <1>1, <1>3 DEF CreateAdopt, SlotRecord
  <2> QED BY <2>1 DEF Power
<1>4. ASSUME NEW s \in Slots, DestroyMark(s) PROVE Power'
  <2>1. /\ pnp = "up" /\ UNCHANGED <<writer, timer, tick, pnp, stopping>>
        /\ \A u \in Slots : u # s => slot'[u] = slot[u]
        /\ slot'[s].state = "stopping"
    BY <1>1, <1>4 DEF DestroyMark, SlotRecord
  <2> QED BY <2>1 DEF Power
<1>5. ASSUME NEW s \in Slots, Deleted(s) PROVE Power'
  <2>1. /\ writer[s] = "idle" /\ UNCHANGED <<writer, timer, tick, pnp, stopping>>
        /\ \A u \in Slots : u # s => slot'[u] = slot[u]
        /\ slot'[s].state = "empty"
    BY <1>1, <1>5 DEF Deleted, EmptySlot
  <2> QED BY <2>1 DEF Power
<1>6. ASSUME NEW s \in Slots, Host(s) PROVE Power'
  <2>1. /\ UNCHANGED <<timer, tick, pnp, stopping>> /\ slot[s].state \in {"starting", "active"}
        /\ \A u \in Slots : u # s => writer'[u] = writer[u]
    BY <1>1, <1>6 DEF Host, SetFeature, WritePid, WriteGeneric, HostMayWrite, Accepts
  <2>2. \A u \in Slots : slot'[u].state = slot[u].state
    <3>1. ASSUME NEW type \in Created, SetFeature(s, type)
          PROVE  \A u \in Slots : slot'[u].state = slot[u].state
      BY <1>1, <3>1 DEF SetFeature, SlotRecord
    <3>2. ASSUME NEW r \in Reports, WritePid(s, r)
          PROVE  \A u \in Slots : slot'[u].state = slot[u].state
      <4> DEFINE g == ApplyPidOutput(slot[s].pid, r)
                 x == Publish([slot[s] EXCEPT !.pid = g])
      <4>1. slot' = [slot EXCEPT ![s] = x] /\ Handled(slot[s].pid, r)
        BY <3>2, Zenon DEF WritePid
      <4>2. g \in Engine /\ Sound(g)
        BY <4>1, SlotFields, ApplyPidOutputType, ReportAssumption DEF Fit
      <4>3. x.state = slot[s].state
        BY <4>2, NewEngine
      <4> HIDE DEF x
      <4> QED BY <1>1, <4>1, <4>3
    <3>3. ASSUME WriteGeneric(s)
          PROVE  \A u \in Slots : slot'[u].state = slot[u].state
      BY <1>1, <3>3 DEF WriteGeneric, SlotRecord
    <3> QED BY <1>6, <3>1, <3>2, <3>3 DEF Host
  <2> QED BY <2>1, <2>2 DEF Power
<1>7. ASSUME NEW s \in Slots, PollFeedback(s) PROVE Power'
  <2>1. /\ UNCHANGED <<writer, timer, tick, pnp, stopping>>
        /\ \A u \in Slots : slot'[u].state = slot[u].state
    BY <1>1, <1>7 DEF PollFeedback, SlotRecord
  <2> QED BY <2>1 DEF Power
<1>8. ASSUME NEW s \in Slots, WriteStartsTimer(s) PROVE Power'
  <2>1. /\ writer[s] = "arm" /\ writer' = [writer EXCEPT ![s] = "idle"]
        /\ UNCHANGED <<slot, tick, pnp, stopping>>
    BY <1>8 DEF WriteStartsTimer
  <2>2. ~(stopping /\ pnp = "down")
    BY <2>1 DEF Power
  <2> QED BY <1>1, <2>1, <2>2 DEF Power
<1>9. ASSUME NEW t \in Ticks, TickPlay(t) PROVE Power'
  <2>1. \A u \in Slots : slot'[u].state = slot[u].state
    <3> DEFINE x(s) == Publish([slot[s] EXCEPT !.pid = Advance(slot[s].pid)])
    <3>1. slot' = [s \in Slots |-> IF slot[s].state = "active" THEN x(s) ELSE slot[s]]
      BY <1>9 DEF TickPlay
    <3>2. ASSUME NEW s \in Slots PROVE x(s).state = slot[s].state
      <4>1. Advance(slot[s].pid) \in Engine /\ Sound(Advance(slot[s].pid))
        BY SlotFields, AdvanceType DEF Fit
      <4> QED BY <4>1, NewEngine
    <3> HIDE DEF x
    <3> QED BY <3>1, <3>2
  <2>2. /\ timer /\ UNCHANGED <<writer, timer, pnp, stopping>>
        /\ \A u \in Ticks : u # t => tick'[u] = tick[u]
        /\ tick'[t] = "leave" => stopping
    BY <1>1, <1>9 DEF TickPlay
  <2> QED BY <2>1, <2>2 DEF Power
<1>10. ASSUME NEW t \in Ticks, TickStep(t) PROVE Power'
  <2>1. /\ UNCHANGED <<slot, writer, pnp, stopping>> /\ tick[t] # "idle" /\ tick'[t] # "leave"
        /\ \A u \in Ticks : u # t => tick'[u] = tick[u]
    BY <1>1, <1>10 DEF TickStep, TickStop, TickRecheck, TickRestart
  <2> QED BY <2>1 DEF Power
<1>11. ASSUME NEW kind \in {"power", "stop"}, DownIntent(kind) PROVE Power'
  <2>1. /\ pnp = "up" /\ pnp' = "intent" /\ UNCHANGED <<slot, writer, timer, tick>>
    BY <1>11 DEF DownIntent
  <2> QED BY <2>1 DEF Power
<1>12. ASSUME DownMark PROVE Power'
  <2>1. /\ pnp = "intent" /\ pnp' = (IF stopping THEN "deleting" ELSE "timer")
        /\ UNCHANGED <<writer, timer, tick, stopping>>
    BY <1>12 DEF DownMark
  <2>2. \A u \in Slots : /\ slot'[u].state \notin {"starting", "active"}
                         /\ slot'[u].state = "empty" => slot[u].state = "empty"
    BY <1>1, <1>12 DEF DownMark, SlotRecord
  <2> QED BY <2>1, <2>2 DEF Power
<1>13. ASSUME DownStopTimer PROVE Power'
  BY <1>13 DEF DownStopTimer, Power
<1>14. ASSUME DownWait PROVE Power'
  BY <1>14 DEF DownWait, Power
<1>15. ASSUME DownDeleted PROVE Power'
  BY <1>15 DEF DownDeleted, Power
<1>16. ASSUME PowerUp PROVE Power'
  BY <1>16 DEF PowerUp, Power
<1>17. ASSUME UNCHANGED vars PROVE Power'
  BY <1>17 DEF vars, Power
<1> QED
  BY <1>2, <1>3, <1>4, <1>5, <1>6, <1>7, <1>8, <1>9, <1>10, <1>11, <1>12, <1>13, <1>14, <1>15,
     <1>16, <1>17 DEF Next, Down
LEMMA InitInv == Init => IInv /\ ClockInv
<1> SUFFICES ASSUME Init PROVE IInv /\ ClockInv
  OBVIOUS
<1>1. slot = [s \in Slots |-> EmptySlot]
  BY DEF Init
<1>2. \A s \in Slots : Fit(slot[s]) /\ slot[s].state = "empty"
  BY <1>1, EmptySlotFits DEF EmptySlot
<1>3. TypeOK
  <2>1. slot \in [Slots -> SlotRecord]
    BY <1>1, EmptySlotFits DEF Fit
  <2>2. 0 \in 0 .. MaxWrites /\ 0 \in 0 .. MaxLives /\ 0 \in 0 .. MaxDowns
    BY PidAssumption
  <2> QED BY <2>1, <2>2 DEF Init, TypeOK
<1>4. Power
  BY <1>2 DEF Init, Power
<1>5. Quiet /\ ~Played(slot)
  BY <1>2 DEF Quiet, Played
<1> QED BY <1>2, <1>3, <1>4, <1>5, FitSlots DEF IInv, ClockInv, ClockCoversEffects

LEMMA StepInv == IInv /\ [Next]_vars => IInv'
<1> SUFFICES ASSUME IInv, [Next]_vars PROVE IInv'
  OBVIOUS
<1>1. TypeOK /\ Power /\ \A s \in Slots : Fit(slot[s])
  BY FitSlots DEF IInv
<1>2. /\ slot' \in [Slots -> SlotRecord]
      /\ \A u \in Slots : Change(slot[u], slot'[u])
  BY <1>1, SlotsStep
<1>3. TypeOK'
  BY <1>1, <1>2, RestStep DEF TypeOK
<1>4. Typed' /\ Told'
  BY <1>2 DEF Typed, Told, Change, Fit
<1>5. Power'
  BY <1>1, PowerStep
<1> QED BY <1>3, <1>4, <1>5 DEF IInv

-----------------------------------------------------------------------------
(* The clock.                                                              *)
Covered ==
  \/ timer \/ stopping
  \/ \E s \in Slots : writer[s] = "arm"
  \/ \E t \in Ticks : tick[t] \in {"recheck", "restart"}

LEMMA CoveredEffects == TypeOK => (ClockCoversEffects <=> (Played(slot) => Covered))
BY DEF TypeOK, ClockCoversEffects, Covered


LEMMA ClockStep ==
  ASSUME IInv, ~EarlyWrites, Quiet, Played(slot) => Covered, [Next]_vars
  PROVE  Quiet' /\ (Played(slot') => Covered')
<1> DEFINE Goal == Quiet' /\ (Played(slot') => Covered')
<1>1. /\ slot \in [Slots -> SlotRecord] /\ writer \in [Slots -> {"idle", "arm"}]
      /\ tick \in [Ticks -> {"idle", "stop", "leave", "recheck", "restart"}]
      /\ \A s \in Slots : Fit(slot[s])
  BY FitSlots DEF IInv, TypeOK
<1>2. Power
  BY DEF IInv
<1>3. ASSUME NEW s \in Slots, CreateAdmit(s) PROVE Goal
  <2>1. /\ \A u \in Slots : u # s => slot'[u] = slot[u]
        /\ slot'[s].state = "starting" /\ slot'[s].pid = ResetEngine
        /\ UNCHANGED <<writer, timer, tick, stopping>>
    BY <1>1, <1>3 DEF CreateAdmit, EmptySlot
  <2>2. Quiet'
    BY <2>1, ResetEngineType DEF Quiet
  <2>3. Played(slot') => Played(slot)
    BY <2>1 DEF Played
  <2> QED BY <2>1, <2>2, <2>3 DEF Covered
<1>4. ASSUME NEW s \in Slots, CreateAdopt(s) PROVE Goal
  <2>1. /\ slot[s].state = "starting"
        /\ \A u \in Slots : u # s => slot'[u] = slot[u]
        /\ slot'[s].state # "starting" /\ slot'[s].pid = slot[s].pid
        /\ UNCHANGED <<writer, timer, tick, stopping>>
    BY <1>1, <1>4 DEF CreateAdopt, SlotRecord
  <2>2. Quiet'
    BY <2>1 DEF Quiet
  <2>3. Played(slot') => Played(slot)
    BY <2>1 DEF Played, Quiet
  <2> QED BY <2>1, <2>2, <2>3 DEF Covered
<1>5. ASSUME NEW s \in Slots, DestroyMark(s) \/ Deleted(s) PROVE Goal
  <2>1. /\ \A u \in Slots : u # s => slot'[u] = slot[u]
        /\ slot'[s].state \in {"stopping", "empty"}
        /\ UNCHANGED <<writer, timer, tick, stopping>>
    BY <1>1, <1>5 DEF DestroyMark, Deleted, EmptySlot, SlotRecord
  <2>2. Quiet'
    BY <2>1 DEF Quiet
  <2>3. Played(slot') => Played(slot)
    BY <2>1 DEF Played
  <2> QED BY <2>1, <2>2, <2>3 DEF Covered
<1>6. ASSUME NEW s \in Slots, NEW type \in Created, SetFeature(s, type) PROVE Goal
  <2>1. /\ \A u \in Slots : u # s => slot'[u] = slot[u]
        /\ slot'[s].state = slot[s].state
        /\ slot'[s].pid = CreateNewEffect(slot[s].pid, type)
        /\ UNCHANGED <<writer, timer, tick, stopping>>
    BY <1>1, <1>6 DEF SetFeature, SlotRecord
  <2>2. NeedsTick(slot'[s].pid) => NeedsTick(slot[s].pid)
    BY <1>1, <2>1, SlotFields, CreateNewEffectType DEF Fit
  <2>3. Quiet'
    BY <2>1, <2>2 DEF Quiet
  <2>4. Played(slot') => Played(slot)
    BY <2>1, <2>2 DEF Played
  <2> QED BY <2>1, <2>3, <2>4 DEF Covered
<1>7. ASSUME NEW s \in Slots, NEW r \in Reports, WritePid(s, r) PROVE Goal
  <2> DEFINE g == ApplyPidOutput(slot[s].pid, r)
             x == Publish([slot[s] EXCEPT !.pid = g])
  <2>1. /\ slot' = [slot EXCEPT ![s] = x] /\ Handled(slot[s].pid, r)
        /\ writer' = [writer EXCEPT ![s] = IF NeedsTick(slot'[s].pid) THEN "arm" ELSE "idle"]
        /\ writer[s] = "idle" /\ slot[s].state = "active"
        /\ UNCHANGED <<timer, tick, stopping>>
    BY <1>7 DEF WritePid, HostMayWrite, Accepts
  <2>2. x.state = slot[s].state
    <3>1. g \in Engine /\ Sound(g)
      BY <1>1, <2>1, SlotFields, ApplyPidOutputType, ReportAssumption DEF Fit
    <3> QED BY <1>1, <3>1, NewEngine
  <2> HIDE DEF x
  <2>3. /\ \A u \in Slots : u # s => slot'[u] = slot[u] /\ writer'[u] = writer[u]
        /\ slot'[s].state = "active"
        /\ NeedsTick(slot'[s].pid) => writer'[s] = "arm"
    BY <1>1, <2>1, <2>2
  <2>4. Quiet'
    BY <2>3 DEF Quiet
  <2>5. Covered => Covered'
    BY <2>1, <2>3 DEF Covered
  <2>6. Played(slot') => Played(slot) \/ writer'[s] = "arm"
    BY <2>1, <2>3 DEF Played
  <2> QED BY <2>4, <2>5, <2>6 DEF Covered
<1>8. ASSUME NEW s \in Slots, WriteGeneric(s) \/ PollFeedback(s) PROVE Goal
  <2>1. /\ \A u \in Slots : slot'[u].state = slot[u].state /\ slot'[u].pid = slot[u].pid
        /\ UNCHANGED <<writer, timer, tick, stopping>>
    BY <1>1, <1>8 DEF WriteGeneric, PollFeedback, SlotRecord
  <2>2. Quiet' /\ (Played(slot') => Played(slot))
    BY <2>1 DEF Quiet, Played
  <2> QED BY <2>1, <2>2 DEF Covered
<1>9. ASSUME NEW s \in Slots, WriteStartsTimer(s) PROVE Goal
  BY <1>9 DEF WriteStartsTimer, Quiet, Covered
<1>10. ASSUME NEW t \in Ticks, TickPlay(t) PROVE Goal
  <2> DEFINE x(s) == Publish([slot[s] EXCEPT !.pid = Advance(slot[s].pid)])
  <2>1. /\ slot' = [s \in Slots |-> IF slot[s].state = "active" THEN x(s) ELSE slot[s]]
        /\ timer /\ UNCHANGED timer
    BY <1>10 DEF TickPlay
  <2>2. ASSUME NEW s \in Slots
        PROVE  x(s).state = slot[s].state /\ (NeedsTick(x(s).pid) => NeedsTick(slot[s].pid))
    <3>1. /\ Advance(slot[s].pid) \in Engine /\ Sound(Advance(slot[s].pid))
          /\ NeedsTick(Advance(slot[s].pid)) => NeedsTick(slot[s].pid)
      BY <1>1, SlotFields, AdvanceType DEF Fit
    <3> QED BY <1>1, <3>1, NewEngine
  <2> HIDE DEF x
  <2>3. Quiet'
    BY <2>1, <2>2 DEF Quiet
  <2> QED BY <2>1, <2>3 DEF Covered
<1>11. ASSUME NEW t \in Ticks, TickStop(t) PROVE Goal
  <2>1. \/ tick[t] = "stop" /\ tick'[t] = "recheck"
        \/ tick[t] = "leave" /\ stopping
    BY <1>1, <1>2, <1>11 DEF TickStop, Power
  <2> QED BY <1>11, <2>1 DEF TickStop, Quiet, Covered
<1>12. ASSUME NEW t \in Ticks, TickRecheck(t) PROVE Goal
  <2>1. /\ UNCHANGED <<slot, writer, timer, stopping>>
        /\ Played(slot) => tick'[t] = "restart"
    BY <1>1, <1>12 DEF TickRecheck
  <2> QED BY <2>1 DEF Quiet, Covered
<1>13. ASSUME NEW t \in Ticks, TickRestart(t) PROVE Goal
  BY <1>13 DEF TickRestart, Quiet, Covered
<1>14. ASSUME NEW kind \in {"power", "stop"}, DownIntent(kind) PROVE Goal
  BY <1>2, <1>14 DEF DownIntent, Power, Quiet, Covered
<1>15. ASSUME DownMark PROVE Goal
  <2>1. \A u \in Slots : slot'[u].state \notin {"starting", "active"}
    BY <1>1, <1>15 DEF DownMark, SlotRecord
  <2> QED BY <2>1 DEF Quiet, Played
<1>16. ASSUME DownStopTimer \/ DownWait \/ DownDeleted \/ PowerUp PROVE Goal
  <2>1. \A u \in Slots : slot'[u].state \notin {"starting", "active"}
    BY <1>2, <1>16 DEF DownStopTimer, DownWait, DownDeleted, PowerUp, Power
  <2> QED BY <2>1 DEF Quiet, Played
<1>17. ASSUME UNCHANGED vars PROVE Goal
  BY <1>17 DEF vars, Quiet, Covered
<1> HIDE DEF Goal
<1>18. Goal
  BY <1>3, <1>4, <1>5, <1>6, <1>7, <1>8, <1>9, <1>10, <1>11, <1>12, <1>13, <1>14, <1>15, <1>16,
     <1>17 DEF Next, Down, Host, TickStep
<1> QED BY <1>18 DEF Goal

-----------------------------------------------------------------------------
(* Every variable keeps its type, whatever reports the host writes: the    *)
(* levels, times and counts of each effect block, and the rumble.          *)
THEOREM PidTypeCorrect == Spec => []TypeOK
<1>1. IInv => TypeOK
  BY DEF IInv
<1> QED BY InitInv, StepInv, <1>1, PTL DEF Spec

(* A host that waits until its controller is started never has an effect   *)
(* without a clock: evt_pid_tick that stops its own timer looks again, and *)
(* what power down or the stop of the device takes from the timer no       *)
(* active controller needs.  (Run pid_early is what other hosts meet.)     *)
THEOREM ClockRuns == ASSUME ~EarlyWrites PROVE Spec => []ClockCoversEffects
<1>1. Init => IInv /\ ClockInv
  BY InitInv
<1>2. (IInv /\ ClockInv) /\ [Next]_vars => (IInv /\ ClockInv)'
  <2> SUFFICES ASSUME IInv, ClockInv, [Next]_vars PROVE (IInv /\ ClockInv)'
    OBVIOUS
  <2>1. IInv'
    BY StepInv
  <2>2. Played(slot) => Covered
    BY CoveredEffects DEF IInv, ClockInv
  <2>3. Quiet' /\ (Played(slot') => Covered')
    BY <2>2, ClockStep DEF ClockInv
  <2>4. TypeOK'
    BY <2>1 DEF IInv
  <2>5. ClockCoversEffects'
    BY <2>3, <2>4 DEF TypeOK, ClockCoversEffects, Covered
  <2> QED BY <2>1, <2>3, <2>5 DEF ClockInv
<1>3. ClockInv => ClockCoversEffects
  BY DEF ClockInv
<1> QED BY <1>1, <1>2, <1>3, PTL DEF Spec

(* apply_envelope never makes an effect louder than the loudest of its     *)
(* levels, for any levels and times, past the end of its duration too, and *)
(* within its duration never quieter than the least of them, however       *)
(* attack and fade overlap and although division rounds.                   *)
THEOREM EnvelopeKept == Spec => []EnvelopeHull
<1>1. IInv => EnvelopeHull
  BY HullOfTypes DEF IInv
<1> QED BY InitInv, StepInv, <1>1, PTL DEF Spec

(* publish_pid_rumble, called after every report and every tick, misses no *)
(* change of the rumble of an active controller.                           *)
THEOREM ChangesTold == Spec => EveryChangeTold
<1>1. IInv /\ [Next]_vars =>
        [\A s \in Slots :
           (slot[s].state = "active" /\ slot'[s].state = "active"
              /\ Rumble(slot[s].pid) # Rumble(slot'[s].pid))
             => slot'[s].pending /\ slot'[s].feedback = Rumble(slot'[s].pid)]_vars
  <2> SUFFICES ASSUME IInv, [Next]_vars
               PROVE  \A s \in Slots :
                        (slot[s].state = "active" /\ slot'[s].state = "active"
                           /\ Rumble(slot[s].pid) # Rumble(slot'[s].pid))
                          => slot'[s].pending /\ slot'[s].feedback = Rumble(slot'[s].pid)
    OBVIOUS
  <2>1. TypeOK /\ \A s \in Slots : Fit(slot[s])
    BY FitSlots DEF IInv
  <2> QED BY <2>1, SlotsStep DEF Change
<1> QED BY InitInv, StepInv, <1>1, PTL DEF Spec, EveryChangeTold
=============================================================================
