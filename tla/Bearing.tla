------------------------------- MODULE Bearing -------------------------------
(***************************************************************************)
(* get_closest_target_bearing of VMScontroller.c: which of the target       *)
(* bearings, the numbers of the sign groups, is nearest to the bearing of a *)
(* point as seen from the centre of the intersection.                       *)
(***************************************************************************)
EXTENDS Integers, Sequences

CONSTANTS
  Circle,  \* units of a full turn: 360 degrees
  Targets, \* the target bearings
  NaN      \* what atan2 and fabs return for coordinates that are no numbers

\* fabs(bearing - target) exceeds a full turn for no bearing in range.
Degree == 0 .. Circle - 1

ASSUME CircleAssumption == Circle \in Nat \ {0}
ASSUME TargetsAssumption == Targets \in Seq(Degree) /\ Targets # << >>
ASSUME NaNAssumption == NaN \notin Int

VARIABLES
  bearing,    \* from the centre to the point
  bearing_pc, \* "bearing", "search", "done"
  n,          \* targets looked at
  closest,
  min_diff

bearing_vars == <<bearing, bearing_pc, n, closest, min_diff>>

Fabs(x) == IF x < 0 THEN -x ELSE x

\* The shorter way round; NaN compares with nothing.
Diff(b, t) ==
  IF b = NaN THEN NaN
  ELSE IF 2 * Fabs(b - t) > Circle THEN Circle - Fabs(b - t) ELSE Fabs(b - t)

\* Mutant: <= lets the last of two equally near targets win.
LessOrEqual(d, e) == d # NaN /\ e # NaN /\ d <= e

Less(d, e) == d # NaN /\ e # NaN /\ d < e

\* atan2 is at most half a turn either way.
BearingInit ==
  /\ bearing \in {b \in -Circle .. Circle : 2 * Fabs(b) <= Circle} \cup {NaN}
  /\ bearing_pc = "bearing"
  /\ n = 0 /\ closest = Targets[1] /\ min_diff = NaN

\* Mutant: a bearing left of north stays negative.
CalculateBearingSigned ==
  /\ bearing_pc = "bearing"
  /\ bearing_pc' = "search"
  /\ UNCHANGED <<bearing, n, closest, min_diff>>

\* fmod(brng + 360.0, 360.0)
CalculateBearing ==
  /\ bearing_pc = "bearing"
  /\ bearing' = IF bearing = NaN THEN NaN ELSE (bearing + Circle) % Circle
  /\ bearing_pc' = "search"
  /\ UNCHANGED <<n, closest, min_diff>>

\* The first target is the nearest so far whatever the bearing.
FirstTarget ==
  /\ bearing_pc = "search" /\ n = 0
  /\ closest' = Targets[1] /\ min_diff' = Diff(bearing, Targets[1])
  /\ n' = 1
  /\ UNCHANGED <<bearing, bearing_pc>>

NextTarget ==
  /\ bearing_pc = "search" /\ n > 0 /\ n < Len(Targets)
  /\ LET diff == Diff(bearing, Targets[n + 1])
     IN  IF Less(diff, min_diff)
           THEN closest' = Targets[n + 1] /\ min_diff' = diff
           ELSE UNCHANGED <<closest, min_diff>>
  /\ n' = n + 1
  /\ UNCHANGED <<bearing, bearing_pc>>

Return ==
  /\ bearing_pc = "search" /\ n = Len(Targets)
  /\ bearing_pc' = "done"
  /\ UNCHANGED <<bearing, n, closest, min_diff>>

BearingNext == CalculateBearing \/ FirstTarget \/ NextTarget \/ Return

BearingSpec == BearingInit /\ [][BearingNext]_bearing_vars

-----------------------------------------------------------------------------
(* Properties.                                                              *)

\* How far two bearings are apart: the least turn, left or right, between them.
Apart(b, t) ==
  LET right == (t - b) % Circle
      left == (b - t) % Circle
  IN  IF right <= left THEN right ELSE left

\* The group for a bearing: the first of the nearest targets; for a bearing that
\* is no number, the first target.
IsGroupFor(b, t) ==
  IF b = NaN THEN t = Targets[1]
  ELSE \E k \in DOMAIN Targets :
         /\ t = Targets[k]
         /\ \A j \in DOMAIN Targets : Apart(b, Targets[k]) <= Apart(b, Targets[j])
         /\ \A j \in 1 .. k - 1 : Apart(b, Targets[k]) < Apart(b, Targets[j])

\* Types; a bearing that was normalised is one of the compass.
BearingTypeOK ==
  /\ bearing_pc \in {"bearing", "search", "done"}
  /\ bearing \in Int \cup {NaN}
  /\ bearing_pc # "bearing" => bearing \in Degree \cup {NaN}
  /\ n \in 0 .. Len(Targets)
  /\ \E k \in DOMAIN Targets : closest = Targets[k]
  /\ min_diff \in Nat \cup {NaN}

\* What find_closest_bearing returns is the group for the bearing, across north
\* as well as anywhere, and the first of two groups a bearing lies midway between.
Nearest == bearing_pc = "done" => IsGroupFor(bearing, closest)

-----------------------------------------------------------------------------
(* The invariant behind them.                                               *)

\* While searching, closest is the first of the nearest of the targets looked at.
NearestSoFar ==
  /\ bearing_pc = "bearing" => n = 0
  /\ bearing_pc = "search" /\ n > 0 =>
       /\ min_diff = Diff(bearing, closest)
       /\ bearing = NaN => closest = Targets[1]
       /\ bearing # NaN =>
            \E k \in 1 .. n :
              /\ closest = Targets[k]
              /\ \A j \in 1 .. n : Diff(bearing, Targets[k]) <= Diff(bearing, Targets[j])
              /\ \A j \in 1 .. k - 1 : Diff(bearing, Targets[k]) < Diff(bearing, Targets[j])

\* The inductive invariant.
BearingIInv == BearingTypeOK /\ NearestSoFar /\ Nearest

=============================================================================
