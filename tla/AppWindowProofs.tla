---------------------------- MODULE AppWindowProofs ----------------------------
(***************************************************************************)
(* Proofs about the files of the program (AppSave), for any collections    *)
(* and environments, and about the window above them.  The core of the     *)
(* first is Tracked: a file that is neither marked nor overtaken nor       *)
(* deleted is on disk in its newest version if no goroutine carries it (or *)
(* its write failed), and otherwise one of them carries the newest.  It    *)
(* holds because of InTurn: of what is not overtaken at most one snapshot  *)
(* waits for the mutex, and it is no older than the one being written.     *)
(* Under the window the same holds, and the limiter tells the truth        *)
(* between operations: the invariant says, for an operation that is alone, *)
(* which of the system, the state and the marker already agree (Reached).  *)
(* When operations meet nothing is said, and that is never taken back.     *)
(***************************************************************************)
EXTENDS AppWindow, SeqFacts


SaverSet == [g : Groups, todo : (SUBSET Snapshots) \ {{}}, holds : BOOLEAN]

Shape ==
    /\ ver \in [Files -> Nat]
    /\ disk \in [Files -> Nat]
    /\ marked \subseteq Files
    /\ deleted \subseteq Cols \cup Envs
    /\ savers \subseteq SaverSet

\* What the goroutines carry: files of one kind, each once, no version from the future;
\* one goroutine of a kind holds the mutex.
Loads ==
    /\ \A s \in savers : \A x \in s.todo : Group(x.file) = s.g /\ x.ver <= ver[x.file]
    /\ \A s \in savers : \A x, y \in s.todo : x.file = y.file => x = y
    /\ \A s, t \in savers : s.holds /\ t.holds /\ s.g = t.g => s = t

InTurn ==
    \A f \in Files \ overtaken : \A s, t \in savers :
        Carries(s, f) /\ Carries(t, f) /\ ~t.holds =>
            IF s.holds
            THEN \A x \in s.todo, y \in t.todo : x.file = f /\ y.file = f => x.ver <= y.ver
            ELSE s = t

Carried(f) == \E s \in savers : Carries(s, f)

Tracked(f) ==
    f \notin overtaken \cup marked \cup deleted =>
        IF Carried(f) THEN InFlight(f) ELSE f \in failed \/ disk[f] = ver[f]

AllTracked == phase # "left" => \A f \in Files : Tracked(f)

DeletedUnmarked == deleted \cap Cols \cap marked = {}

\* Closing the window leaves no mark on an environment, and no goroutine behind.
Closing ==
    /\ how = "close" => marked \cap Envs = {}
    /\ how = "close" /\ phase = "flushing" => savers = {}
    /\ phase = "running" => how = "none"

IInv ==
    /\ Shape
    /\ Loads
    /\ InTurn
    /\ AllTracked
    /\ DeletedUnmarked
    /\ DeletedStaysDeleted
    /\ Closing
    /\ ExitSaves

-----------------------------------------------------------------------------

\* Which files are alike.
LEMMA Kinds ==
    /\ Group(State) = "state"
    /\ \A c \in Cols : Group(c) = "cols"
    /\ \A e \in Envs : Group(e) = "envs"
    /\ \A f \in Files : Group(f) \in Groups
  BY FilesAssumption DEF Group, Groups, Files

\* Fresh goroutines wait, carry the versions of now, and are of different kinds.
Newborn(new) ==
    /\ new \subseteq SaverSet
    /\ \A n \in new : ~n.holds
    /\ \A n \in new : \A x \in n.todo : Group(x.file) = n.g /\ x.ver = ver[x.file]
    /\ \A n, m \in new : n.g = m.g => n = m

LEMMA SaverFresh ==
    ASSUME Shape, NEW G \in Groups, NEW F \in SUBSET Files, \A f \in F : Group(f) = G
    PROVE  /\ Newborn(Saver(G, F))
           /\ \A n \in Saver(G, F) : n.g = G
           /\ \A f : (\E n \in Saver(G, F) : Carries(n, f)) <=> f \in F
<1>1. CASE F = {}
  BY <1>1 DEF Newborn, Saver
<1>2. CASE F # {}
  <2> DEFINE todo == {[file |-> f, ver |-> ver[f]] : f \in F}
  <2>1. todo \in (SUBSET Snapshots) \ {{}}
    <3>1. ASSUME NEW f \in F PROVE [file |-> f, ver |-> ver[f]] \in Snapshots
      BY DEF Shape, Snapshots
    <3>2. todo \subseteq Snapshots
      BY <3>1
    <3>3. todo # {}
      BY <1>2
    <3> HIDE DEF todo
    <3> QED
      BY <3>2, <3>3
  <2>2. \A x \in todo : Group(x.file) = G /\ x.ver = ver[x.file] /\ x.file \in F
    OBVIOUS
  <2>3. ASSUME NEW f \in F PROVE \E x \in todo : x.file = f
    <3>1. [file |-> f, ver |-> ver[f]] \in todo
      OBVIOUS
    <3> QED
      BY <3>1
  <2> DEFINE n == [g |-> G, todo |-> todo, holds |-> FALSE]
  <2>4. Saver(G, F) = {n}
    BY <1>2 DEF Saver
  <2> HIDE DEF todo
  <2>5. n \in SaverSet
    BY <2>1 DEF SaverSet
  <2>6. \A f : (\E x \in todo : x.file = f) <=> f \in F
    BY <2>2, <2>3
  <2>7. n.g = G /\ n.todo = todo /\ n.holds = FALSE
    OBVIOUS
  <2> HIDE DEF n
  <2>8. Newborn(Saver(G, F))
    BY <2>2, <2>4, <2>5, <2>7 DEF Newborn
  <2>9. \A f : (\E m \in Saver(G, F) : Carries(m, f)) <=> f \in F
    BY <2>4, <2>6, <2>7 DEF Carries
  <2> QED
    BY <2>4, <2>7, <2>8, <2>9
<1> QED
  BY <1>1, <1>2

LEMMA FreshUnion ==
    ASSUME NEW a, NEW b, Newborn(a), Newborn(b), \A n \in a, m \in b : n.g # m.g
    PROVE  Newborn(a \cup b)
  BY DEF Newborn

\* Starting goroutines for freshly marked files keeps what is known of the goroutines.
LEMMA StartLoads ==
    ASSUME Shape, Loads, InTurn, NEW new, Newborn(new), Start(new), ver' = ver
    PROVE  savers' \subseteq SaverSet /\ Loads' /\ InTurn'
<1>1. savers' = savers \cup new /\ savers' \subseteq SaverSet
  BY DEF Start, Newborn, Shape
<1>2. ASSUME NEW s \in new PROVE
         /\ s \in SaverSet /\ ~s.holds
         /\ \A x \in s.todo : Group(x.file) = s.g /\ x.ver = ver[x.file] /\ x \in Snapshots
  BY DEF Newborn, SaverSet
<1>3. Loads'
  <2>1. ASSUME NEW s \in savers', NEW x \in s.todo
        PROVE  Group(x.file) = s.g /\ x.ver <= ver[x.file]
    <3>1. CASE s \in savers
      BY <3>1 DEF Loads
    <3>2. CASE s \in new
      <4>1. x.ver = ver[x.file] /\ x.ver \in Nat /\ Group(x.file) = s.g
        BY <1>2, <3>2 DEF Snapshots
      <4> QED
        BY <4>1
    <3> QED
      BY <1>1, <3>1, <3>2
  <2>2. ASSUME NEW s \in savers', NEW x \in s.todo, NEW y \in s.todo, x.file = y.file
        PROVE  x = y
    <3>1. CASE s \in savers
      BY <2>2, <3>1 DEF Loads
    <3>2. CASE s \in new
      BY <1>2, <2>2, <3>2 DEF Snapshots
    <3> QED
      BY <1>1, <3>1, <3>2
  <2>3. \A s, t \in savers' : s.holds /\ t.holds /\ s.g = t.g => s = t
    BY <1>1, <1>2 DEF Loads
  <2> QED
    BY <2>1, <2>2, <2>3 DEF Loads
<1>4. ASSUME NEW f \in Files \ overtaken', NEW s \in savers', NEW t \in savers',
             Carries(s, f), Carries(t, f), ~t.holds
      PROVE  IF s.holds
             THEN \A x \in s.todo, y \in t.todo : x.file = f /\ y.file = f => x.ver <= y.ver
             ELSE s = t
  <2>1. CASE \E n \in new : Carries(n, f)
    <3>1. ~Waiting(f)
      BY <1>4, <2>1 DEF Start
    <3>2. t \in new
      BY <1>1, <1>4, <3>1 DEF Waiting
    <3>3. CASE s \in new
      <4>1. s.g = t.g
        BY <1>2, <1>4, <3>2, <3>3 DEF Carries
      <4> QED
        BY <1>2, <3>2, <3>3, <4>1 DEF Newborn
    <3>4. CASE s \in savers
      <4>1. s.holds
        BY <1>4, <3>1, <3>4 DEF Waiting
      <4>2. \A x \in s.todo : x.ver <= ver[x.file]
        BY <3>4 DEF Loads
      <4>3. \A y \in t.todo : y.ver = ver[y.file]
        BY <1>2, <3>2
      <4> QED
        BY <4>1, <4>2, <4>3
    <3> QED
      BY <1>1, <3>3, <3>4
  <2>2. CASE ~\E n \in new : Carries(n, f)
    <3>1. s \in savers /\ t \in savers
      BY <1>1, <1>4, <2>2
    <3>2. f \in Files \ overtaken
      BY <1>4, <2>2 DEF Start
    <3> QED
      BY <1>4, <3>1, <3>2 DEF InTurn
  <2> QED
    BY <2>1, <2>2
<1>5. InTurn'
  BY <1>4 DEF InTurn, Carries
<1> QED
  BY <1>1, <1>3, <1>5

\* ... and what was handed over is tracked by what carries it now.
LEMMA StartTracked ==
    ASSUME Shape, Loads, NEW new, Newborn(new), Start(new), ver' = ver,
           NEW f \in Files, Tracked(f),
           deleted' = deleted, disk' = disk, failed' = failed,
           f \in marked /\ f \notin marked' => f \in deleted \/ \E n \in new : Carries(n, f)
    PROVE  Tracked(f)'
<1>1. savers' = savers \cup new
  BY DEF Start
<1>2. CASE \E n \in new : Carries(n, f)
  <2>0. PICK n \in new : Carries(n, f)
    BY <1>2
  <2>1. PICK x \in n.todo : x.file = f
    BY <2>0 DEF Carries
  <2>2. x \in Snapshots /\ x.ver = ver[f]
    BY <2>1 DEF Newborn, SaverSet
  <2>3. x = [file |-> f, ver |-> ver'[f]]
    BY <2>1, <2>2 DEF Snapshots
  <2>4. InFlight(f)' /\ Carried(f)'
    BY <1>1, <2>1, <2>3 DEF InFlight, Carried, Carries
  <2> QED
    BY <2>4 DEF Tracked
<1>3. CASE ~\E n \in new : Carries(n, f)
  <2>1. f \notin overtaken' => f \notin overtaken
    BY <1>3 DEF Start
  <2>2. Carried(f)' <=> Carried(f)
    BY <1>1, <1>3 DEF Carried, Carries
  <2>3. InFlight(f) => InFlight(f)'
    BY <1>1 DEF InFlight
  <2> QED
    BY <1>3, <2>1, <2>2, <2>3 DEF Tracked
<1> QED
  BY <1>2, <1>3

-----------------------------------------------------------------------------

\* A step that leaves the goroutines alone: versions only grow, and a file stops being
\* overtaken only when nobody carries it.
LEMMA QuietLoads ==
    ASSUME Shape, Loads, InTurn, savers' = savers,
           \A f \in Files : ver[f] <= ver'[f] /\ ver'[f] \in Nat,
           \A f \in overtaken \ overtaken' : ~Carried(f)
    PROVE  Loads' /\ InTurn'
<1>1. ASSUME NEW s \in savers, NEW x \in s.todo
      PROVE  Group(x.file) = s.g /\ x.ver <= ver'[x.file]
  <2>1. x.file \in Files /\ x.ver \in Nat
    BY DEF Shape, SaverSet, Snapshots
  <2>2. Group(x.file) = s.g /\ x.ver <= ver[x.file]
    BY DEF Loads
  <2>3. ver[x.file] \in Nat /\ ver'[x.file] \in Nat /\ ver[x.file] <= ver'[x.file]
    BY <2>1 DEF Shape
  <2> QED
    BY <2>1, <2>2, <2>3
<1>2. Loads'
  BY <1>1 DEF Loads
<1>3. ASSUME NEW f \in Files \ overtaken', NEW s \in savers, Carries(s, f)
      PROVE  f \notin overtaken
  BY <1>3 DEF Carried
<1>4. InTurn'
  BY <1>3 DEF InTurn, Carries
<1> QED
  BY <1>2, <1>4

\* ... and a file whose version, content and fate did not change stays tracked.
LEMMA QuietTracked ==
    ASSUME NEW f \in Files, Tracked(f), savers' = savers, ver'[f] = ver[f], disk'[f] = disk[f],
           f \in marked' \/ f \notin marked, f \in deleted => f \in deleted',
           f \in overtaken' <=> f \in overtaken, f \in failed' <=> f \in failed
    PROVE  Tracked(f)'
<1>1. Carried(f)' <=> Carried(f)
  BY DEF Carried, Carries
<1>2. InFlight(f)' <=> InFlight(f)
  BY DEF InFlight
<1> QED
  BY <1>1, <1>2 DEF Tracked

\* A write of f by the UI thread leaves f tracked, whether or not it succeeds.
LEMMA UnlockedTracked ==
    ASSUME Shape, NEW f \in Files, ver' \in [Files -> Nat], savers' = savers,
           Replace(f, ver'[f]), Unlocked(f)
    PROVE  Tracked(f)'
<1>1. CASE f \in overtaken'
  BY <1>1 DEF Tracked
<1>2. CASE f \notin overtaken'
  <2>1. ~Carried(f)
    BY <1>2 DEF Unlocked, Carried
  <2>2. ~Carried(f)'
    BY <2>1 DEF Carried, Carries
  <2>3. f \in failed' \/ disk'[f] = ver'[f]
    BY DEF Replace, Shape
  <2> QED
    BY <2>2, <2>3 DEF Tracked
<1> QED
  BY <1>1, <1>2

\* A write touches one file and its record of failure.
LEMMA ReplaceOne ==
    ASSUME Shape, NEW f \in Files, NEW v \in Nat, Replace(f, v)
    PROVE  /\ disk' \in [Files -> Nat]
           /\ \A g \in Files \ {f} : disk'[g] = disk[g] /\ (g \in failed' <=> g \in failed)
           /\ f \in failed' \/ disk'[f] = v
           /\ disk'[f] = v \/ (disk'[f] = disk[f] /\ f \in failed')
  BY DEF Replace, Shape

-----------------------------------------------------------------------------

\* What a change of the user's has to show to keep the invariant.
LEMMA EditInvariance ==
    ASSUME IInv, Running, UNCHANGED exitVars, savers' = savers,
           ver' \in [Files -> Nat], \A f \in Files : ver[f] <= ver'[f],
           disk' \in [Files -> Nat], marked' \subseteq Files, deleted' \subseteq Cols \cup Envs,
           \A f \in overtaken \ overtaken' : ~Carried(f),
           \A f \in Files : Tracked(f)',
           DeletedUnmarked', DeletedStaysDeleted'
    PROVE  IInv'
<1>1. Shape'
  BY DEF IInv, Shape
<1>2. Loads' /\ InTurn'
  BY QuietLoads DEF IInv
<1>3. phase = "running" /\ phase' = "running" /\ how' = how
  BY DEF Running, exitVars
<1>4. AllTracked' /\ Closing' /\ ExitSaves'
  BY <1>3 DEF IInv, AllTracked, Closing, ExitSaves
<1> QED
  BY <1>1, <1>2, <1>4 DEF IInv

\* The version of one file grows.
LEMMA NextVersion ==
    ASSUME Shape, NEW f \in Files, ver' = [ver EXCEPT ![f] = @ + 1]
    PROVE  /\ ver' \in [Files -> Nat]
           /\ \A g \in Files : ver[g] <= ver'[g]
           /\ \A g \in Files \ {f} : ver'[g] = ver[g]
<1>1. \A g \in Files : ver[g] \in Nat
  BY DEF Shape
<1>2. \A g \in Files : ver'[g] = IF g = f THEN ver[g] + 1 ELSE ver[g]
  BY DEF Shape
<1>3. ver' = [g \in Files |-> IF g = f THEN ver[g] + 1 ELSE ver[g]]
  BY DEF Shape
<1>4. ver' \in [Files -> Nat]
  <2>1. \A g \in Files : (IF g = f THEN ver[g] + 1 ELSE ver[g]) \in Nat
    BY <1>1
  <2> QED
    BY <2>1, <1>3
<1>5. \A g \in Files : ver[g] <= ver'[g]
  BY <1>1, <1>2
<1> QED
  BY <1>2, <1>4, <1>5

LEMMA Apart ==
    /\ State \in Files /\ State \notin Cols \cup Envs
    /\ Cols \subseteq Files /\ Envs \subseteq Files /\ Cols \cap Envs = {}
  BY FilesAssumption DEF Files

LEMMA SaveStateStep ==
    ASSUME IInv, SaveState
    PROVE  IInv'
<1> USE Apart DEF SaveState
<1>1. /\ Running /\ UNCHANGED exitVars /\ savers' = savers /\ disk' = disk
      /\ \A f \in Files : Tracked(f)
  BY DEF MayEdit, Running, IInv, AllTracked
<1>2. /\ ver' \in [Files -> Nat] /\ \A f \in Files : ver[f] <= ver'[f]
      /\ \A f \in Files \ {State} : ver'[f] = ver[f]
  BY NextVersion DEF IInv
<1>3. ASSUME NEW f \in Files PROVE Tracked(f)'
  <2>1. CASE f = State
    BY <2>1 DEF Tracked
  <2>2. CASE f # State
    BY <1>1, <1>2, <2>2, QuietTracked
  <2> QED
    BY <2>1, <2>2
<1>4. /\ disk' \in [Files -> Nat] /\ marked' \subseteq Files /\ deleted' \subseteq Cols \cup Envs
      /\ overtaken \ overtaken' = {}
  BY DEF IInv, Shape
<1>5. DeletedUnmarked' /\ DeletedStaysDeleted'
  BY DEF IInv, DeletedUnmarked, DeletedStaysDeleted
<1> QED
  BY <1>1, <1>2, <1>3, <1>4, <1>5, EditInvariance

LEMMA MarkCollectionDirtyStep ==
    ASSUME IInv, NEW c \in Cols, MarkCollectionDirty(c)
    PROVE  IInv'
<1> USE Apart DEF MarkCollectionDirty
<1>1. /\ Running /\ UNCHANGED exitVars /\ savers' = savers /\ disk' = disk
      /\ \A f \in Files : Tracked(f)
  BY DEF MayEdit, Running, IInv, AllTracked
<1>2. /\ ver' \in [Files -> Nat] /\ \A f \in Files : ver[f] <= ver'[f]
      /\ \A f \in Files \ {c} : ver'[f] = ver[f]
  BY NextVersion DEF IInv
<1>3. ASSUME NEW f \in Files PROVE Tracked(f)'
  <2>1. CASE f = c
    BY <2>1 DEF Tracked
  <2>2. CASE f # c
    BY <1>1, <1>2, <2>2, QuietTracked
  <2> QED
    BY <2>1, <2>2
<1>4. /\ disk' \in [Files -> Nat] /\ marked' \subseteq Files /\ deleted' \subseteq Cols \cup Envs
      /\ overtaken \ overtaken' = {}
  BY DEF IInv, Shape
<1>5. DeletedUnmarked' /\ DeletedStaysDeleted'
  BY DEF IInv, DeletedUnmarked, DeletedStaysDeleted
<1> QED
  BY <1>1, <1>2, <1>3, <1>4, <1>5, EditInvariance

LEMMA DeleteCollectionStep ==
    ASSUME IInv, NEW c \in Cols, DeleteCollection(c)
    PROVE  IInv'
<1> USE Apart DEF DeleteCollection
<1>1. /\ Running /\ UNCHANGED exitVars /\ savers' = savers
      /\ \A f \in Files : Tracked(f)
  BY DEF MayEdit, Running, IInv, AllTracked
<1>2. /\ ver' \in [Files -> Nat] /\ \A f \in Files : ver[f] <= ver'[f]
      /\ \A f \in Files \ {State} : ver'[f] = ver[f]
  BY NextVersion DEF IInv
<1>3. /\ disk' \in [Files -> Nat]
      /\ \A g \in Files \ {c} : disk'[g] = disk[g] /\ (g \in failed' <=> g \in failed)
      /\ c \in failed' \/ disk'[c] = Absent
  <2>1. Absent \in Nat /\ c \in Files
    BY DEF Absent
  <2> QED
    BY <2>1, ReplaceOne DEF IInv
<1>4. ASSUME NEW f \in Files PROVE Tracked(f)'
  <2>1. CASE f \in {State, c}
    BY <2>1 DEF Tracked
  <2>2. CASE f \notin {State, c}
    BY <1>1, <1>2, <1>3, <2>2, QuietTracked
  <2> QED
    BY <2>1, <2>2
<1>5. /\ marked' \subseteq Files /\ deleted' \subseteq Cols \cup Envs
      /\ overtaken \ overtaken' = {}
  BY DEF IInv, Shape
<1>6. DeletedUnmarked'
  BY DEF IInv, DeletedUnmarked
<1>7. DeletedStaysDeleted'
  BY <1>3 DEF IInv, DeletedStaysDeleted
<1> QED
  BY <1>1, <1>2, <1>3, <1>4, <1>5, <1>6, <1>7, EditInvariance

LEMMA PickColorStep ==
    ASSUME IInv, NEW e \in Envs, PickColor(e)
    PROVE  IInv'
<1> USE Apart DEF PickColor
<1>1. /\ Running /\ UNCHANGED exitVars /\ savers' = savers /\ disk' = disk
      /\ \A f \in Files : Tracked(f)
  BY DEF MayEdit, Running, IInv, AllTracked
<1>2. /\ ver' \in [Files -> Nat] /\ \A f \in Files : ver[f] <= ver'[f]
      /\ \A f \in Files \ {e} : ver'[f] = ver[f]
  BY NextVersion DEF IInv
<1>3. ASSUME NEW f \in Files PROVE Tracked(f)'
  <2>1. CASE f = e
    BY <2>1 DEF Tracked
  <2>2. CASE f # e
    BY <1>1, <1>2, <2>2, QuietTracked
  <2> QED
    BY <2>1, <2>2
<1>4. /\ disk' \in [Files -> Nat] /\ marked' \subseteq Files /\ deleted' \subseteq Cols \cup Envs
      /\ overtaken \ overtaken' = {}
  BY DEF IInv, Shape
<1>5. DeletedUnmarked' /\ DeletedStaysDeleted'
  BY DEF IInv, DeletedUnmarked, DeletedStaysDeleted
<1> QED
  BY <1>1, <1>2, <1>3, <1>4, <1>5, EditInvariance

LEMMA SaveEnvironmentStep ==
    ASSUME IInv, NEW e \in Envs, SaveEnvironment(e)
    PROVE  IInv'
<1> USE Apart DEF SaveEnvironment
<1>1. /\ Running /\ UNCHANGED exitVars /\ savers' = savers
      /\ \A f \in Files : Tracked(f)
  BY DEF MayEdit, Running, IInv, AllTracked
<1>2. /\ ver' \in [Files -> Nat] /\ \A f \in Files : ver[f] <= ver'[f]
      /\ \A f \in Files \ {e} : ver'[f] = ver[f]
  BY NextVersion DEF IInv
<1>3. /\ disk' \in [Files -> Nat]
      /\ \A g \in Files \ {e} : disk'[g] = disk[g] /\ (g \in failed' <=> g \in failed)
  <2>1. ver'[e] \in Nat /\ e \in Files
    BY <1>2
  <2> QED
    BY <2>1, ReplaceOne DEF IInv
<1>4. /\ \A f \in Files \ {e} : f \in overtaken' <=> f \in overtaken
      /\ \A f \in overtaken \ overtaken' : ~Carried(f)
  BY DEF Unlocked, Carried
<1>5. ASSUME NEW f \in Files PROVE Tracked(f)'
  <2>1. CASE f = e
    BY <1>2, <2>1, UnlockedTracked DEF IInv
  <2>2. CASE f # e
    BY <1>1, <1>2, <1>3, <1>4, <2>2, QuietTracked
  <2> QED
    BY <2>1, <2>2
<1>6. marked' \subseteq Files /\ deleted' \subseteq Cols \cup Envs
  BY DEF IInv, Shape
<1>7. DeletedUnmarked' /\ DeletedStaysDeleted'
  BY <1>3 DEF IInv, DeletedUnmarked, DeletedStaysDeleted
<1> QED
  BY <1>1, <1>2, <1>3, <1>4, <1>5, <1>6, <1>7, EditInvariance

LEMMA DeleteEnvironmentStep ==
    ASSUME IInv, NEW e \in Envs, DeleteEnvironment(e)
    PROVE  IInv'
<1> USE Apart DEF DeleteEnvironment
<1>1. /\ Running /\ UNCHANGED exitVars /\ savers' = savers
      /\ \A f \in Files : Tracked(f)
  BY DEF MayEdit, Running, IInv, AllTracked
<1>2. /\ ver' \in [Files -> Nat] /\ \A f \in Files : ver[f] <= ver'[f]
      /\ \A f \in Files \ {State} : ver'[f] = ver[f]
  BY NextVersion DEF IInv
<1>3. /\ disk' \in [Files -> Nat]
      /\ \A g \in Files \ {e} : disk'[g] = disk[g] /\ (g \in failed' <=> g \in failed)
  <2>1. Absent \in Nat /\ e \in Files
    BY DEF Absent
  <2> QED
    BY <2>1, ReplaceOne DEF IInv
<1>4. /\ \A f \in Files \ {e} : f \in overtaken' <=> f \in overtaken
      /\ \A f \in overtaken \ overtaken' : ~Carried(f)
  BY DEF Unlocked, Carried
<1>5. ASSUME NEW f \in Files PROVE Tracked(f)'
  <2>1. CASE f \in {State, e}
    BY <2>1 DEF Tracked
  <2>2. CASE f \notin {State, e}
    BY <1>1, <1>2, <1>3, <1>4, <2>2, QuietTracked
  <2> QED
    BY <2>1, <2>2
<1>6. marked' \subseteq Files /\ deleted' \subseteq Cols \cup Envs
  BY DEF IInv, Shape
<1>7. DeletedUnmarked' /\ DeletedStaysDeleted'
  BY <1>3 DEF IInv, DeletedUnmarked, DeletedStaysDeleted
<1> QED
  BY <1>1, <1>2, <1>3, <1>4, <1>5, <1>6, <1>7, EditInvariance

-----------------------------------------------------------------------------

LEMMA ClosePickerStep ==
    ASSUME IInv, ClosePicker
    PROVE  IInv'
<1> USE Apart DEF ClosePicker
<1> DEFINE F == marked \cap Envs
           new == Saver("envs", F)
<1>1. /\ Newborn(new)
      /\ \A f : (\E n \in new : Carries(n, f)) <=> f \in F
  BY SaverFresh, Kinds DEF Groups, IInv
<1> HIDE DEF new
<1>2. Start(new) /\ ver' = ver /\ disk' = disk /\ deleted' = deleted /\ failed' = failed
  BY DEF new
<1>3. savers' \subseteq SaverSet /\ Loads' /\ InTurn'
  BY <1>1, <1>2, StartLoads DEF IInv
<1>4. phase = "running" /\ phase' = "running" /\ how' = how /\ marked' = marked \ Envs
  BY DEF Running, exitVars
<1>5. ASSUME NEW f \in Files PROVE Tracked(f)'
  <2>1. Tracked(f)
    BY <1>4 DEF IInv, AllTracked
  <2> QED
    BY <2>1, <1>1, <1>2, <1>4, StartTracked DEF IInv
<1>6. Shape'
  BY <1>2, <1>3, <1>4 DEF IInv, Shape
<1>7. AllTracked' /\ Closing' /\ ExitSaves'
  BY <1>4, <1>5 DEF IInv, AllTracked, Closing, ExitSaves
<1>8. DeletedUnmarked' /\ DeletedStaysDeleted'
  <2>1. failed' = failed
    BY <1>2
  <2> QED
    BY <1>2, <1>4 DEF IInv, DeletedUnmarked, DeletedStaysDeleted
<1> QED
  BY <1>3, <1>6, <1>7, <1>8 DEF IInv

LEMMA OneKind ==
    /\ \A F \in SUBSET {State} : F \in SUBSET Files /\ \A f \in F : Group(f) = "state"
    /\ \A F \in SUBSET Cols : F \in SUBSET Files /\ \A f \in F : Group(f) = "cols"
    /\ \A F \in SUBSET Envs : F \in SUBSET Files /\ \A f \in F : Group(f) = "envs"
  BY Kinds, Apart

LEMMA FrameStep ==
    ASSUME IInv, NEW D \in SUBSET (marked \ Envs), Frame(D)
    PROVE  IInv'
<1> USE Apart DEF Frame
<1> DEFINE A == D \cap {State}
           B == (D \cap Cols) \ deleted
           a == Saver("state", A)
           b == Saver("cols", B)
<1>1. /\ Newborn(a) /\ \A n \in a : n.g = "state"
      /\ \A f : (\E n \in a : Carries(n, f)) <=> f \in A
  <2>1. A \in SUBSET Files /\ \A f \in A : Group(f) = "state"
    BY ONLY OneKind
  <2>2. "state" \in Groups /\ Shape
    BY DEF Groups, IInv
  <2> HIDE DEF A
  <2> QED
    BY ONLY <2>1, <2>2, SaverFresh
<1>2. /\ Newborn(b) /\ \A n \in b : n.g = "cols"
      /\ \A f : (\E n \in b : Carries(n, f)) <=> f \in B
  <2>1. B \in SUBSET Files /\ \A f \in B : Group(f) = "cols"
    BY ONLY OneKind
  <2>2. "cols" \in Groups /\ Shape
    BY DEF Groups, IInv
  <2> HIDE DEF B
  <2> QED
    BY ONLY <2>1, <2>2, SaverFresh
<1>3. Start(a \cup b) /\ ver' = ver /\ disk' = disk /\ deleted' = deleted /\ failed' = failed
  OBVIOUS
<1> HIDE DEF a, b
<1>4. Newborn(a \cup b)
  BY <1>1, <1>2, FreshUnion
<1>5. savers' \subseteq SaverSet /\ Loads' /\ InTurn'
  BY <1>3, <1>4, StartLoads DEF IInv
<1>6. phase = "running" /\ phase' = "running" /\ how' = how /\ marked' = marked \ D
  BY DEF Running, exitVars
<1>7. ASSUME NEW f \in Files PROVE Tracked(f)'
  <2>1. Tracked(f)
    BY <1>6 DEF IInv, AllTracked
  <2>2. f \in marked /\ f \notin marked' =>
            f \in deleted \/ \E n \in a \cup b : Carries(n, f)
    <3>1. f \in D => f \in A \/ f \in B \/ f \in deleted
      BY DEF Files
    <3> QED
      BY <3>1, <1>1, <1>2, <1>6
  <2> QED
    BY <2>1, <2>2, <1>3, <1>4, StartTracked DEF IInv
<1>8. Shape'
  BY <1>3, <1>5, <1>6 DEF IInv, Shape
<1>9. AllTracked' /\ Closing' /\ ExitSaves'
  BY <1>6, <1>7 DEF IInv, AllTracked, Closing, ExitSaves
<1>10. DeletedUnmarked' /\ DeletedStaysDeleted'
  BY <1>3, <1>6 DEF IInv, DeletedUnmarked, DeletedStaysDeleted
<1> QED
  BY <1>5, <1>8, <1>9, <1>10 DEF IInv

LEMMA DestroyStep ==
    ASSUME IInv, Destroy
    PROVE  IInv'
<1> USE Apart DEF Destroy
<1> DEFINE F == marked \cap Envs
           new == Saver("envs", F)
<1>1. /\ Newborn(new)
      /\ \A f : (\E n \in new : Carries(n, f)) <=> f \in F
  BY SaverFresh, Kinds DEF Groups, IInv
<1> HIDE DEF new
<1>2. Start(new) /\ ver' = ver /\ disk' = disk /\ deleted' = deleted /\ failed' = failed
  BY DEF new
<1>3. savers' \subseteq SaverSet /\ Loads' /\ InTurn'
  BY <1>1, <1>2, StartLoads DEF IInv
<1>4. phase = "running" /\ phase' = "waiting" /\ how' = "close" /\ marked' = marked \ Envs
  BY DEF Running
<1>5. ASSUME NEW f \in Files PROVE Tracked(f)'
  <2>1. Tracked(f)
    BY <1>4 DEF IInv, AllTracked
  <2> QED
    BY <2>1, <1>1, <1>2, <1>4, StartTracked DEF IInv
<1>6. Shape'
  BY <1>2, <1>3, <1>4 DEF IInv, Shape
<1>7. AllTracked' /\ Closing' /\ ExitSaves'
  BY <1>4, <1>5 DEF IInv, AllTracked, Closing, ExitSaves
<1>8. DeletedUnmarked' /\ DeletedStaysDeleted'
  BY <1>2, <1>4 DEF IInv, DeletedUnmarked, DeletedStaysDeleted
<1> QED
  BY <1>3, <1>6, <1>7, <1>8 DEF IInv

\* A step that changes nothing but the timers or the place in the exit.
LEMMA IdleInvariance ==
    ASSUME IInv, UNCHANGED <<ver, disk, marked, deleted, savers, overtaken, failed>>,
           Closing', ExitSaves', phase = "left" => phase' = "left"
    PROVE  IInv'
<1>1. Shape' /\ Loads' /\ InTurn'
  BY DEF IInv, Shape, Loads, InTurn, Carries
<1>2. \A f \in Files : Tracked(f) => Tracked(f)'
  BY DEF Tracked, Carried, Carries, InFlight
<1>3. AllTracked' /\ DeletedUnmarked' /\ DeletedStaysDeleted'
  BY <1>2 DEF IInv, AllTracked, DeletedUnmarked, DeletedStaysDeleted
<1> QED
  BY <1>1, <1>3 DEF IInv

LEMMA FireStep ==
    ASSUME IInv, NEW g \in DOMAIN timer, Fire(g)
    PROVE  IInv'
<1>1. UNCHANGED <<ver, disk, marked, deleted, savers, overtaken, failed>> /\ UNCHANGED exitVars
  BY DEF Fire
<1>2. Closing' /\ ExitSaves'
  BY <1>1 DEF Fire, Running, IInv, Closing, ExitSaves, exitVars
<1> QED
  BY <1>1, <1>2, IdleInvariance DEF exitVars

LEMMA ShutdownAndExitStep ==
    ASSUME IInv, ShutdownAndExit
    PROVE  IInv'
<1>1. UNCHANGED <<ver, disk, marked, deleted, savers, overtaken, failed>>
  BY DEF ShutdownAndExit
<1>2. phase = "running" /\ phase' = "waiting" /\ how' = "restart"
  BY DEF ShutdownAndExit, Running
<1>3. Closing' /\ ExitSaves'
  BY <1>2 DEF Closing, ExitSaves
<1> QED
  BY <1>1, <1>2, <1>3, IdleInvariance

LEMMA EndWaitStep ==
    ASSUME IInv, EndWait
    PROVE  IInv'
<1>1. UNCHANGED <<ver, disk, marked, deleted, savers, overtaken, failed>>
  BY DEF EndWait, uiVars
<1>2. phase = "waiting" /\ phase' = "flushing" /\ how' = how
  BY DEF EndWait
<1>3. how = "close" => savers = {}
  BY DEF EndWait, WaitOver
<1>4. Closing' /\ ExitSaves'
  BY <1>1, <1>2, <1>3 DEF IInv, Closing, ExitSaves
<1> QED
  BY <1>1, <1>2, <1>4, IdleInvariance

-----------------------------------------------------------------------------

LEMMA FlushCollectionStep ==
    ASSUME IInv, NEW c \in Cols, FlushCollection(c)
    PROVE  IInv'
<1> USE Apart DEF FlushCollection
<1>1. /\ phase = "flushing" /\ phase' = "flushing" /\ how' = how
      /\ savers' = savers /\ ver' = ver /\ deleted' = deleted /\ marked' = marked \ {c}
  BY DEF exitVars
<1>2. \A f \in Files : Tracked(f)
  BY <1>1 DEF IInv, AllTracked
<1>3. c \in Files /\ c \in marked /\ c \notin deleted /\ ver[c] \in Nat
  BY DEF IInv, DeletedUnmarked, Shape
<1>4. /\ disk' \in [Files -> Nat]
      /\ \A g \in Files \ {c} : disk'[g] = disk[g] /\ (g \in failed' <=> g \in failed)
  BY <1>3, ReplaceOne DEF IInv
<1>5. /\ \A f \in Files \ {c} : f \in overtaken' <=> f \in overtaken
      /\ \A f \in overtaken \ overtaken' : ~Carried(f)
  BY DEF Unlocked, Carried
<1>6. ASSUME NEW f \in Files PROVE Tracked(f)'
  <2>1. CASE f = c
    <3>1. Replace(c, ver'[c]) /\ ver' \in [Files -> Nat] /\ Shape
      BY <1>1 DEF IInv, Shape
    <3> QED
      BY <1>1, <1>3, <2>1, <3>1, UnlockedTracked
  <2>2. CASE f # c
    BY <1>1, <1>2, <1>4, <1>5, <2>2, QuietTracked
  <2> QED
    BY <2>1, <2>2
<1>7. Shape'
  BY <1>1, <1>4 DEF IInv, Shape
<1>8. Loads' /\ InTurn'
  <2>1. \A f \in Files : ver[f] <= ver'[f] /\ ver'[f] \in Nat
    BY <1>1 DEF IInv, Shape
  <2> QED
    BY <1>1, <1>5, <2>1, QuietLoads DEF IInv
<1>9. AllTracked' /\ Closing' /\ ExitSaves'
  BY <1>1, <1>6 DEF IInv, AllTracked, Closing, ExitSaves
<1>10. DeletedUnmarked' /\ DeletedStaysDeleted'
  BY <1>1, <1>3, <1>4 DEF IInv, DeletedUnmarked, DeletedStaysDeleted
<1> QED
  BY <1>7, <1>8, <1>9, <1>10 DEF IInv

LEMMA LeaveStep ==
    ASSUME IInv, Leave
    PROVE  IInv'
<1> USE Apart DEF Leave
<1>1. /\ phase = "flushing" /\ phase' = "left" /\ how' = how /\ savers' = {}
      /\ ver' = ver /\ deleted' = deleted /\ marked' = marked \ {State} /\ overtaken' = overtaken
  OBVIOUS
<1>2. ver[State] \in Nat
  BY DEF IInv, Shape
<1>3. /\ disk' \in [Files -> Nat]
      /\ \A g \in Files \ {State} : disk'[g] = disk[g] /\ (g \in failed' <=> g \in failed)
      /\ State \in failed' \/ disk'[State] = ver[State]
  BY <1>2, ReplaceOne DEF IInv
<1>4. Shape' /\ Loads' /\ InTurn'
  BY <1>1, <1>3 DEF IInv, Shape, Loads, InTurn
<1>5. AllTracked' /\ Closing' /\ DeletedUnmarked' /\ DeletedStaysDeleted'
  BY <1>1, <1>3 DEF IInv, AllTracked, Closing, DeletedUnmarked, DeletedStaysDeleted
<1>6. ASSUME NEW f \in (IF how' = "close" THEN Files ELSE {State}), Settled(f)'
      PROVE  disk'[f] = ver'[f]
  <2>1. CASE f = State
    BY <1>1, <1>3, <1>6, <2>1 DEF Settled
  <2>2. CASE f # State
    <3>1. how = "close" /\ f \in Files
      BY <1>1, <1>6, <2>2
    <3>2. savers = {} /\ f \notin marked
      BY <1>1, <2>2, <3>1 DEF IInv, Closing, Files
    <3>3. f \notin overtaken \cup deleted \cup failed
      BY <1>1, <1>3, <1>6, <2>2, <3>1 DEF Settled
    <3>4. Tracked(f) /\ ~Carried(f)
      BY <1>1, <3>1, <3>2 DEF IInv, AllTracked, Carried
    <3>5. disk[f] = ver[f]
      BY <3>2, <3>3, <3>4 DEF Tracked
    <3> QED
      BY <1>1, <1>3, <2>2, <3>1, <3>5
  <2> QED
    BY <2>1, <2>2
<1>7. ExitSaves'
  BY <1>6 DEF ExitSaves
<1> QED
  BY <1>4, <1>5, <1>7 DEF IInv

LEMMA LockStep ==
    ASSUME IInv, NEW s \in savers, Lock(s)
    PROVE  IInv'
<1> DEFINE u == [s EXCEPT !.holds = TRUE]
<1>1. /\ s \in SaverSet /\ u \in SaverSet
      /\ u.g = s.g /\ u.todo = s.todo /\ u.holds = TRUE
  BY DEF IInv, Shape, SaverSet
<1>2. /\ phase # "left" /\ ~s.holds
      /\ \A t \in savers : t.g = s.g => ~t.holds
      /\ savers' = (savers \ {s}) \cup {u}
      /\ UNCHANGED <<ver, disk, marked, deleted, phase, how, overtaken, failed>>
  BY DEF Lock, Held, uiVars, exitVars
<1> HIDE DEF u
<1>3. Shape'
  BY <1>1, <1>2 DEF IInv, Shape
<1>4. Loads'
  BY <1>1, <1>2 DEF IInv, Loads
<1>5. \A f : Carries(u, f) <=> Carries(s, f)
  BY <1>1 DEF Carries
<1>6. ASSUME NEW f \in Files \ overtaken, NEW r \in savers', NEW t \in savers',
             Carries(r, f), Carries(t, f), ~t.holds
      PROVE  IF r.holds
             THEN \A x \in r.todo, y \in t.todo : x.file = f /\ y.file = f => x.ver <= y.ver
             ELSE r = t
  <2>1. t \in savers /\ t # s
    BY <1>1, <1>2, <1>6
  <2>2. CASE r = u
    <3>1. s = t
      BY <1>2, <1>5, <1>6, <2>1, <2>2 DEF IInv, InTurn
    <3> QED
      BY <2>1, <3>1
  <2>3. CASE r # u
    <3>1. r \in savers
      BY <1>2, <2>3
    <3> QED
      BY <1>6, <2>1, <3>1 DEF IInv, InTurn
  <2> QED
    BY <2>2, <2>3
<1>7. InTurn'
  BY <1>2, <1>6 DEF InTurn, Carries
<1>8. ASSUME NEW f \in Files PROVE Tracked(f)'
  <2>1. Tracked(f)
    BY <1>2 DEF IInv, AllTracked
  <2>2. Carried(f)' <=> Carried(f)
    BY <1>2, <1>5 DEF Carried, Carries
  <2>3. InFlight(f) => InFlight(f)'
    BY <1>1, <1>2 DEF InFlight
  <2> QED
    BY <1>2, <2>1, <2>2, <2>3 DEF Tracked
<1>9. AllTracked' /\ DeletedUnmarked' /\ DeletedStaysDeleted'
  BY <1>2, <1>8 DEF IInv, AllTracked, DeletedUnmarked, DeletedStaysDeleted
<1>10. Closing' /\ ExitSaves'
  BY <1>2 DEF IInv, Closing, ExitSaves
<1> QED
  BY <1>3, <1>4, <1>7, <1>9, <1>10 DEF IInv

LEMMA WriteStep ==
    ASSUME IInv, NEW s \in savers, Write(s)
    PROVE  IInv'
<1>1. PICK x \in s.todo :
         /\ IF x.file \in deleted \cap Cols THEN UNCHANGED <<disk, failed>>
            ELSE Replace(x.file, x.ver)
         /\ savers' = (savers \ {s}) \cup
                      (IF s.todo = {x} THEN {} ELSE {[s EXCEPT !.todo = @ \ {x}]})
  BY DEF Write
<1> DEFINE f0 == x.file
           u == [s EXCEPT !.todo = @ \ {x}]
<1>2. /\ s \in SaverSet /\ x \in Snapshots /\ f0 \in Files /\ x.ver \in Nat
      /\ x = [file |-> f0, ver |-> x.ver]
  BY DEF IInv, Shape, SaverSet, Snapshots
<1>3. u.g = s.g /\ u.todo = s.todo \ {x} /\ u.holds = s.holds
  BY <1>2 DEF SaverSet
<1>4. s.todo # {x} => u \in SaverSet
  BY <1>2 DEF SaverSet
<1>5. /\ phase # "left" /\ s.holds
      /\ savers' = (savers \ {s}) \cup (IF s.todo = {x} THEN {} ELSE {u})
      /\ UNCHANGED <<ver, marked, deleted, phase, how, overtaken>>
  BY <1>1 DEF Write, uiVars, exitVars
<1> HIDE DEF u
<1>6. /\ disk' \in [Files -> Nat]
      /\ \A g \in Files \ {f0} : disk'[g] = disk[g] /\ (g \in failed' <=> g \in failed)
      /\ f0 \in deleted \cap Cols => disk' = disk /\ failed' = failed
      /\ f0 \notin deleted \cap Cols => f0 \in failed' \/ disk'[f0] = x.ver
  <2>1. CASE f0 \in deleted \cap Cols
    BY <1>1, <2>1 DEF IInv, Shape
  <2>2. CASE f0 \notin deleted \cap Cols
    BY <1>1, <1>2, <2>2, ReplaceOne DEF IInv
  <2> QED
    BY <2>1, <2>2
<1> HIDE DEF f0
<1>7. \A r \in savers' : (r \in savers /\ r # s) \/ (r = u /\ s.todo # {x})
  <2>1. CASE s.todo = {x}
    BY <1>5, <2>1
  <2>2. CASE s.todo # {x}
    BY <1>5, <2>2
  <2> QED
    BY <2>1, <2>2
<1>8. \A y \in s.todo : y.file = f0 => y = x
  BY DEF IInv, Loads, f0
<1>9. ~Carries(u, f0) /\ \A f : f # f0 => (Carries(u, f) <=> Carries(s, f))
  BY <1>3, <1>8 DEF Carries, f0
<1>10. Shape'
  BY <1>4, <1>5, <1>6 DEF IInv, Shape
<1>11. Loads'
  <2>1. ASSUME NEW r \in savers', NEW y \in r.todo
        PROVE  Group(y.file) = r.g /\ y.ver <= ver[y.file]
    BY <1>3, <1>7 DEF IInv, Loads
  <2>2. ASSUME NEW r \in savers', NEW y \in r.todo, NEW z \in r.todo, y.file = z.file
        PROVE  y = z
    BY <1>3, <1>7, <2>2 DEF IInv, Loads
  <2>3. ASSUME NEW r \in savers', NEW t \in savers', r.holds, t.holds, r.g = t.g
        PROVE  r = t
    BY <1>3, <1>5, <1>7, <2>3 DEF IInv, Loads
  <2> QED
    BY <1>5, <2>1, <2>2, <2>3 DEF Loads
<1>12. ASSUME NEW f \in Files \ overtaken, NEW r \in savers', NEW t \in savers',
              Carries(r, f), Carries(t, f), ~t.holds
       PROVE  IF r.holds
              THEN \A y \in r.todo, z \in t.todo : y.file = f /\ z.file = f => y.ver <= z.ver
              ELSE r = t
  <2>1. t \in savers
    BY <1>3, <1>5, <1>7, <1>12
  <2>2. CASE r = u
    <3>1. f # f0 /\ Carries(s, f)
      BY <1>9, <1>12, <2>2
    <3>2. \A y \in s.todo, z \in t.todo : y.file = f /\ z.file = f => y.ver <= z.ver
      BY <1>5, <1>12, <2>1, <3>1 DEF IInv, InTurn
    <3> QED
      BY <1>3, <1>5, <2>2, <3>2
  <2>3. CASE r # u
    <3>1. r \in savers
      BY <1>7, <2>3
    <3> QED
      BY <1>12, <2>1, <3>1 DEF IInv, InTurn
  <2> QED
    BY <2>2, <2>3
<1>13. InTurn'
  BY <1>5, <1>12 DEF InTurn, Carries
<1>14. ASSUME NEW f \in Files, f # f0 PROVE Tracked(f)'
  <2>1. Tracked(f)
    BY <1>5 DEF IInv, AllTracked
  <2>2. Carries(s, f) => s.todo # {x}
    BY <1>14 DEF Carries, f0
  <2>3. Carried(f)' <=> Carried(f)
    <3>1. Carried(f) <=> \E r \in savers' : Carries(r, f)
      BY <1>5, <1>7, <1>9, <1>14, <2>2 DEF Carried
    <3> QED
      BY <3>1 DEF Carried, Carries
  <2>4. InFlight(f) => InFlight(f)'
    <3>1. ASSUME NEW r \in savers, [file |-> f, ver |-> ver[f]] \in r.todo
          PROVE  \E t \in savers' : [file |-> f, ver |-> ver[f]] \in t.todo
      <4>1. CASE r = s
        <5>1. [file |-> f, ver |-> ver[f]] # x
          BY <1>14 DEF f0
        <5>2. [file |-> f, ver |-> ver[f]] \in u.todo /\ s.todo # {x}
          BY <1>3, <3>1, <4>1, <5>1
        <5> QED
          BY <1>5, <5>2
      <4>2. CASE r # s
        BY <1>5, <3>1, <4>2
      <4> QED
        BY <4>1, <4>2
    <3> QED
      BY <1>5, <3>1 DEF InFlight
  <2> QED
    BY <1>5, <1>6, <1>14, <2>1, <2>3, <2>4 DEF Tracked
<1>15. Tracked(f0)'
  <2> SUFFICES ASSUME f0 \notin overtaken \cup marked \cup deleted
               PROVE  IF Carried(f0)' THEN InFlight(f0)' ELSE f0 \in failed' \/ disk'[f0] = ver'[f0]
    BY <1>5 DEF Tracked
  <2>1. InFlight(f0)
    <3>1. Carried(f0)
      BY DEF Carried, Carries, f0
    <3> QED
      BY <1>2, <1>5, <3>1 DEF IInv, AllTracked, Tracked
  <2>2. PICK t \in savers : [file |-> f0, ver |-> ver[f0]] \in t.todo
    BY <2>1 DEF InFlight
  <2>3. CASE t # s
    <3>1. t \in savers' /\ InFlight(f0)'
      BY <1>5, <2>2, <2>3 DEF InFlight
    <3>2. Carried(f0)'
      BY <2>2, <3>1 DEF Carried, Carries
    <3> QED
      BY <3>1, <3>2
  <2>4. CASE t = s
    <3>1. x.ver = ver[f0]
      BY <1>8, <2>2, <2>4
    <3>2. CASE Carried(f0)'
      <4>0. PICK r \in savers' : Carries(r, f0)
        BY <3>2 DEF Carried, Carries
      <4>1. PICK z \in r.todo : z.file = f0
        BY <4>0 DEF Carries
      <4>2. r \in savers /\ r # s
        BY <1>7, <1>9, <4>1 DEF Carries
      <4>3. Group(f0) = s.g /\ Group(f0) = r.g /\ z.ver <= ver[f0]
        BY <4>1, <4>2 DEF IInv, Loads, f0
      <4>4. ~r.holds
        BY <1>5, <4>2, <4>3 DEF IInv, Loads
      <4>5. Carries(s, f0) /\ Carries(r, f0)
        BY <4>1 DEF Carries, f0
      <4>6. x.ver <= z.ver
        BY <1>2, <1>5, <4>1, <4>2, <4>4, <4>5 DEF IInv, InTurn, f0
      <4>7. z \in Snapshots
        BY <4>1, <4>2 DEF IInv, Shape, SaverSet
      <4>8. ver[f0] \in Nat /\ z.ver \in Nat
        BY <1>2, <4>7 DEF IInv, Shape, Snapshots
      <4>9. z.ver = ver[f0]
        BY <3>1, <4>3, <4>6, <4>8
      <4>10. z = [file |-> f0, ver |-> ver[f0]]
        BY <4>1, <4>7, <4>9 DEF Snapshots
      <4>11. InFlight(f0)'
        BY <1>5, <4>1, <4>10 DEF InFlight
      <4> QED
        BY <3>2, <4>11
    <3>3. CASE ~Carried(f0)'
      BY <1>5, <1>6, <3>1, <3>3
    <3> QED
      BY <3>2, <3>3
  <2> QED
    BY <2>3, <2>4
<1>16. AllTracked'
  BY <1>14, <1>15 DEF AllTracked
<1>17. DeletedUnmarked' /\ DeletedStaysDeleted'
  <2>1. \A c \in deleted \cap Cols : disk'[c] = disk[c] /\ (c \in failed' <=> c \in failed)
    BY <1>6, Apart
  <2> QED
    BY <1>5, <2>1 DEF IInv, DeletedUnmarked, DeletedStaysDeleted
<1>18. Closing' /\ ExitSaves'
  <2>1. Closing /\ savers # {}
    BY DEF IInv
  <2>2. ~(how = "close" /\ phase = "flushing")
    BY ONLY <2>1 DEF Closing
  <2> QED
    BY <1>5, <2>1, <2>2 DEF Closing, ExitSaves
<1> QED
  BY <1>10, <1>11, <1>13, <1>16, <1>17, <1>18 DEF IInv

LEMMA InitInvariant == Init => IInv
<1> SUFFICES ASSUME Init PROVE IInv
  OBVIOUS
<1> USE Apart DEF Init
<1>1. \A f \in Files : f \notin marked => disk[f] = ver[f]
  OBVIOUS
<1>2. Shape
  <2>1. ver \in [Files -> Nat] /\ disk \in [Files -> Nat] /\ marked \subseteq Files
    OBVIOUS
  <2> QED
    BY <2>1 DEF Shape
<1>3. Loads /\ InTurn
  BY DEF Loads, InTurn
<1>4. AllTracked
  BY <1>1 DEF AllTracked, Tracked, Carried
<1>5. DeletedUnmarked /\ DeletedStaysDeleted /\ Closing /\ ExitSaves
  BY DEF DeletedUnmarked, DeletedStaysDeleted, Closing, ExitSaves
<1> QED
  BY <1>2, <1>3, <1>4, <1>5 DEF IInv

LEMMA InvariantStep == IInv /\ [Next]_vars => IInv'
<1> SUFFICES ASSUME IInv, [Next]_vars PROVE IInv'
  OBVIOUS
<1>1. CASE Edit
  BY <1>1, SaveStateStep, MarkCollectionDirtyStep, DeleteCollectionStep, PickColorStep,
     SaveEnvironmentStep, DeleteEnvironmentStep, ClosePickerStep DEF Edit
<1>2. CASE AnyFrame
  BY <1>2, FrameStep DEF AnyFrame
<1>3. CASE AnyTimer
  BY <1>3, FireStep DEF AnyTimer
<1>4. CASE AnySaver
  BY <1>4, LockStep, WriteStep DEF AnySaver
<1>5. CASE Exit
  BY <1>5, DestroyStep, ShutdownAndExitStep, EndWaitStep, FlushCollectionStep, LeaveStep DEF Exit
<1>6. CASE UNCHANGED vars
  <2>1. UNCHANGED <<ver, disk, marked, deleted, savers, overtaken, failed>> /\ UNCHANGED <<phase, how>>
    BY <1>6 DEF vars, uiVars, exitVars
  <2>2. Closing' /\ ExitSaves'
    BY <2>1 DEF IInv, Closing, ExitSaves, Settled
  <2> QED
    BY <2>1, <2>2, IdleInvariance
<1> QED
  BY <1>1, <1>2, <1>3, <1>4, <1>5, <1>6 DEF Next

\* The inductive invariant of the saves.
THEOREM Invariance == Spec => []IInv
  BY InitInvariant, InvariantStep, PTL DEF Spec

\* Between any two steps of the user, the frames and the goroutines, every file is on disk
\* in its newest version, on its way there or still marked: a crash loses nothing else.
THEOREM NothingForgotten == Spec => []PendingOrSaved
<1>1. IInv => PendingOrSaved
  BY DEF IInv, AllTracked, Tracked, PendingOrSaved, Settled
<1> QED
  BY <1>1, Invariance, PTL

\* Neither a goroutine that waited for the mutex nor the exit writes the file of a
\* collection again after DeleteCollection.
THEOREM NoResurrection == Spec => []DeletedStaysDeleted
<1>1. IInv => DeletedStaysDeleted
  BY DEF IInv
<1> QED
  BY <1>1, Invariance, PTL

\* Both for every state: what is on disk is never behind for good and never back.
THEOREM DiskIsFaithful == Spec => []DiskFollows
  BY NothingForgotten, NoResurrection, PTL DEF DiskFollows

\* Leaving either way writes the newest state, and closing the window everything else too.
THEOREM ExitKeeps == Spec => []ExitSaves
<1>1. IInv => ExitSaves
  BY DEF IInv
<1> QED
  BY <1>1, Invariance, PTL

-----------------------------------------------------------------------------
(* Type correctness.  What is due, and what a timer covers, is marked and  *)
(* no environment: every operation that takes a mark away takes it out of  *)
(* those, too.                                                             *)

Timer(F) == [flag : BOOLEAN, on : BOOLEAN, covers : SUBSET F]

Debounce ==
    /\ due \subseteq marked \ Envs
    /\ timer \in [{"state", "cols"} -> Timer(marked \ Envs)]
    /\ phase # "running" => due = {} /\ timer = NoTimers

Rest ==
    /\ wanted \in BOOLEAN
    /\ phase \in {"running", "waiting", "flushing", "left"}
    /\ how \in {"none", "close", "restart"}
    /\ overtaken \subseteq Files
    /\ failed \subseteq Files

LEMMA NoTimersType == ASSUME NEW F PROVE NoTimers \in [{"state", "cols"} -> Timer(F)]
  BY DEF NoTimers, Timer

LEMMA TimersGrow ==
    ASSUME NEW F, NEW G, F \subseteq G, NEW t \in [{"state", "cols"} -> Timer(F)]
    PROVE  t \in [{"state", "cols"} -> Timer(G)]
<1>1. Timer(F) \subseteq Timer(G)
  BY DEF Timer
<1> QED
  BY <1>1

LEMMA ForgetType ==
    ASSUME NEW F, timer \in [{"state", "cols"} -> Timer(F)], NEW f
    PROVE  Forget(f) \in [{"state", "cols"} -> Timer(F \ {f})]
<1>1. ASSUME NEW t \in Timer(F) PROVE [t EXCEPT !.covers = @ \ {f}] \in Timer(F \ {f})
  BY DEF Timer
<1> QED
  BY <1>1 DEF Forget

LEMMA StartRest ==
    ASSUME overtaken \subseteq Files, NEW new, Start(new)
    PROVE  overtaken' \subseteq Files
  BY DEF Start

LEMMA ReplaceRest ==
    ASSUME failed \subseteq Files, NEW f \in Files, NEW v, Replace(f, v)
    PROVE  failed' \subseteq Files
  BY DEF Replace

LEMMA UnlockedRest ==
    ASSUME overtaken \subseteq Files, NEW f \in Files, Unlocked(f)
    PROVE  overtaken' \subseteq Files
  BY DEF Unlocked

\* The files a step of the UI thread names.
LEMMA Named == State \in Files /\ State \notin Envs /\ Cols \subseteq Files /\ Envs \subseteq Files /\ Cols \cap Envs = {}
  BY FilesAssumption DEF Files

\* Marks are added, or only those of environments taken away.
LEMMA DebounceKept ==
    ASSUME Debounce, marked \ Envs \subseteq marked' \ Envs, due' = due, timer' = timer, phase' = phase
    PROVE  Debounce'
<1>1. timer' \in [{"state", "cols"} -> Timer(marked' \ Envs)]
  BY TimersGrow DEF Debounce
<1> QED
  BY <1>1 DEF Debounce

LEMMA EditTypes ==
    ASSUME Debounce, Rest, Edit
    PROVE  Debounce' /\ Rest'
<1> USE Named
<1>1. CASE SaveState
  <2>1. marked \ Envs \subseteq marked' \ Envs /\ due' = due /\ timer' = timer /\ phase' = phase
    BY <1>1 DEF SaveState, exitVars
  <2>2. Rest'
    BY <1>1 DEF SaveState, Rest, exitVars
  <2> QED
    BY <2>1, <2>2, DebounceKept
<1>2. ASSUME NEW c \in Cols, MarkCollectionDirty(c) PROVE Debounce' /\ Rest'
  <2>1. c \in Files /\ c \notin Envs
    OBVIOUS
  <2>2. timer' \in [{"state", "cols"} -> Timer(marked' \ Envs)]
    <3>1. CASE timer["cols"].flag
      <4>1. timer' \in [{"state", "cols"} -> Timer((marked \ Envs) \ {c})]
        BY <1>2, <3>1, ForgetType DEF MarkCollectionDirty, Debounce
      <4>2. (marked \ Envs) \ {c} \subseteq marked' \ Envs
        BY <1>2 DEF MarkCollectionDirty
      <4> QED
        BY <4>1, <4>2, TimersGrow
    <3>2. CASE ~timer["cols"].flag
      <4>1. timer \in [{"state", "cols"} -> Timer(marked' \ Envs)]
        BY <1>2, TimersGrow DEF MarkCollectionDirty, Debounce
      <4>2. Armed(marked' \cap Cols) \in Timer(marked' \ Envs)
        BY DEF Armed, Timer
      <4>3. timer' = [timer EXCEPT !["cols"] = Armed(marked' \cap Cols)]
        BY <1>2, <3>2 DEF MarkCollectionDirty
      <4> QED
        BY <4>1, <4>2, <4>3
    <3> QED
      BY <3>1, <3>2
  <2> QED
    BY <1>2, <2>1, <2>2 DEF MarkCollectionDirty, Debounce, Rest, exitVars, MayEdit, Running
<1>3. ASSUME NEW c \in Cols, DeleteCollection(c) PROVE Debounce' /\ Rest'
  <2>1. timer' \in [{"state", "cols"} -> Timer((marked \ Envs) \ {c})]
    BY <1>3, ForgetType DEF DeleteCollection, Debounce
  <2>2. (marked \ Envs) \ {c} \subseteq marked' \ Envs
    BY <1>3 DEF DeleteCollection
  <2>3. timer' \in [{"state", "cols"} -> Timer(marked' \ Envs)]
    BY <2>1, <2>2, TimersGrow
  <2>4. failed' \subseteq Files
    BY <1>3, ReplaceRest DEF DeleteCollection, Rest
  <2> QED
    BY <1>3, <2>3, <2>4 DEF DeleteCollection, Debounce, Rest, exitVars, MayEdit, Running
<1>4. ASSUME NEW e \in Envs, PickColor(e) PROVE Debounce' /\ Rest'
  <2>1. marked \ Envs \subseteq marked' \ Envs /\ due' = due /\ timer' = timer /\ phase' = phase
    BY <1>4 DEF PickColor, exitVars
  <2>2. Rest'
    BY <1>4 DEF PickColor, Rest, exitVars
  <2> QED
    BY <2>1, <2>2, DebounceKept
<1>5. ASSUME NEW e \in Envs, SaveEnvironment(e) PROVE Debounce' /\ Rest'
  <2>1. failed' \subseteq Files /\ overtaken' \subseteq Files
    BY <1>5, ReplaceRest, UnlockedRest DEF SaveEnvironment, Rest
  <2>2. marked \ Envs \subseteq marked' \ Envs /\ due' = due /\ timer' = timer /\ phase' = phase
    BY <1>5 DEF SaveEnvironment, exitVars
  <2>3. Rest'
    BY <1>5, <2>1 DEF SaveEnvironment, Rest, exitVars
  <2> QED
    BY <2>2, <2>3, DebounceKept
<1>6. ASSUME NEW e \in Envs, DeleteEnvironment(e) PROVE Debounce' /\ Rest'
  <2>1. failed' \subseteq Files /\ overtaken' \subseteq Files
    BY <1>6, ReplaceRest, UnlockedRest DEF DeleteEnvironment, Rest
  <2>2. marked \ Envs \subseteq marked' \ Envs /\ due' = due /\ timer' = timer /\ phase' = phase
    BY <1>6 DEF DeleteEnvironment, exitVars
  <2>3. Rest'
    BY <1>6, <2>1 DEF DeleteEnvironment, Rest, exitVars
  <2> QED
    BY <2>2, <2>3, DebounceKept
<1>7. CASE ClosePicker
  <2>1. overtaken' \subseteq Files
    BY <1>7, StartRest DEF ClosePicker, Rest
  <2>2. marked \ Envs \subseteq marked' \ Envs /\ due' = due /\ timer' = timer /\ phase' = phase
    BY <1>7 DEF ClosePicker, exitVars
  <2>3. Rest'
    BY <1>7, <2>1 DEF ClosePicker, Rest, exitVars
  <2> QED
    BY <2>2, <2>3, DebounceKept
<1> QED
  BY <1>1, <1>2, <1>3, <1>4, <1>5, <1>6, <1>7 DEF Edit

LEMMA FrameTypes ==
    ASSUME Shape, Debounce, Rest, NEW D \in SUBSET (marked \ Envs), Frame(D)
    PROVE  Debounce' /\ Rest'
<1> USE Named
<1>1. marked' \ Envs = (marked \ Envs) \ D
  BY DEF Frame
<1>2. /\ timer["state"] \in Timer(marked \ Envs) /\ timer["cols"] \in Timer(marked \ Envs)
      /\ DOMAIN timer = {"state", "cols"}
  BY DEF Debounce
<1>3. StateTimer(D) \in Timer(marked' \ Envs)
  <2>1. PICK t : t = [timer["state"] EXCEPT !.covers = @ \ D]
    OBVIOUS
  <2>2. t \in Timer(marked' \ Envs)
    BY <1>1, <1>2, <2>1 DEF Timer
  <2>3. [t EXCEPT !.flag = FALSE] \in Timer(marked' \ Envs)
    BY <2>2 DEF Timer
  <2>4. State \in marked /\ State \notin D => Armed({State}) \in Timer(marked' \ Envs)
    BY <1>1 DEF Armed, Timer
  <2> QED
    BY <2>1, <2>2, <2>3, <2>4 DEF StateTimer
<1>4. ColsTimer(D) \in Timer(marked' \ Envs)
  <2>1. [timer["cols"] EXCEPT !.flag = FALSE, !.covers = {}] \in Timer(marked' \ Envs)
    BY <1>2 DEF Timer
  <2>2. Armed((marked \cap Cols) \ D) \in Timer(marked' \ Envs)
    BY <1>1 DEF Armed, Timer
  <2> QED
    BY <2>1, <2>2 DEF ColsTimer
<1>5. timer' \in [{"state", "cols"} -> Timer(marked' \ Envs)]
  <2>1. timer' = [timer EXCEPT !["state"] = StateTimer(D), !["cols"] = ColsTimer(D)]
    BY DEF Frame
  <2>2. timer' = [g \in {"state", "cols"} |-> IF g = "cols" THEN ColsTimer(D) ELSE StateTimer(D)]
    BY <2>1, <1>2 DEF Debounce
  <2> QED
    BY ONLY <2>2, <1>3, <1>4
<1>6. overtaken' \subseteq Files
  BY StartRest DEF Frame, Rest
<1> QED
  BY <1>5, <1>6 DEF Frame, Debounce, Rest, exitVars, Running

LEMMA FireTypes ==
    ASSUME Shape, Debounce, Rest, AnyTimer
    PROVE  Debounce' /\ Rest'
<1>1. PICK g \in {"state", "cols"} : Fire(g)
  BY DEF AnyTimer, Debounce
<1>2. timer[g] \in Timer(marked \ Envs)
  BY DEF Debounce
<1>3. [timer[g] EXCEPT !.on = FALSE, !.covers = {}] \in Timer(marked \ Envs)
  BY <1>2 DEF Timer
<1>4. timer' = [timer EXCEPT ![g] = [timer[g] EXCEPT !.on = FALSE, !.covers = {}]]
  BY <1>1 DEF Fire, Debounce
<1>5. timer' \in [{"state", "cols"} -> Timer(marked \ Envs)]
  BY <1>3, <1>4 DEF Debounce
<1>6. timer[g].covers \subseteq marked \ Envs
  BY <1>2 DEF Timer
<1> QED
  BY <1>1, <1>5, <1>6 DEF Fire, Debounce, Rest, exitVars, Running

LEMMA SaverTypes ==
    ASSUME Shape, Debounce, Rest, AnySaver
    PROVE  Debounce' /\ Rest'
<1>1. ASSUME NEW s \in savers, Lock(s) PROVE Debounce' /\ Rest'
  <2>1. marked \ Envs \subseteq marked' \ Envs /\ due' = due /\ timer' = timer /\ phase' = phase
    BY <1>1 DEF Lock, uiVars, exitVars
  <2>2. Rest'
    BY <1>1 DEF Lock, Rest, uiVars, exitVars
  <2> QED
    BY <2>1, <2>2, DebounceKept
<1>2. ASSUME NEW s \in savers, Write(s) PROVE Debounce' /\ Rest'
  <2>1. PICK x \in s.todo : IF x.file \in deleted \cap Cols THEN UNCHANGED <<disk, failed>>
                            ELSE Replace(x.file, x.ver)
    BY <1>2 DEF Write
  <2>2. x.file \in Files
    BY <2>1 DEF Shape, SaverSet, Snapshots
  <2>3. failed' \subseteq Files
    BY <2>1, <2>2, ReplaceRest DEF Rest
  <2>4. marked \ Envs \subseteq marked' \ Envs /\ due' = due /\ timer' = timer /\ phase' = phase
    BY <1>2 DEF Write, uiVars, exitVars
  <2>5. Rest'
    BY <1>2, <2>3 DEF Write, Rest, uiVars, exitVars
  <2> QED
    BY <2>4, <2>5, DebounceKept
<1> QED
  BY <1>1, <1>2 DEF AnySaver

LEMMA ExitTypes ==
    ASSUME Debounce, Rest, Exit
    PROVE  Debounce' /\ Rest'
<1> USE Named
<1>0. Debounce' <=> /\ due' \subseteq marked' \ Envs
                    /\ timer' \in [{"state", "cols"} -> Timer(marked' \ Envs)]
                    /\ phase' # "running" => due' = {} /\ timer' = NoTimers
  BY DEF Debounce, NoTimers
<1>1. ASSUME due' = {}, timer' = NoTimers PROVE Debounce'
  BY <1>0, <1>1, NoTimersType
<1>2. CASE Destroy
  <2>1. overtaken' \subseteq Files
    BY <1>2, StartRest DEF Destroy, Rest
  <2> QED
    BY <1>1, <1>2, <2>1 DEF Destroy, NoMoreFrames, Rest
<1>3. CASE ShutdownAndExit
  BY <1>1, <1>3 DEF ShutdownAndExit, NoMoreFrames, Rest
<1>4. CASE EndWait
  BY <1>1, <1>4 DEF EndWait, Debounce, Rest, uiVars
<1>5. ASSUME NEW c \in Cols, FlushCollection(c) PROVE Debounce' /\ Rest'
  <2>1. failed' \subseteq Files /\ overtaken' \subseteq Files
    BY <1>5, ReplaceRest, UnlockedRest DEF FlushCollection, Rest
  <2> QED
    BY <1>1, <1>5, <2>1 DEF FlushCollection, Debounce, Rest, exitVars
<1>6. CASE Leave
  <2>1. failed' \subseteq Files
    BY <1>6, ReplaceRest DEF Leave, Rest
  <2> QED
    BY <1>1, <1>6, <2>1 DEF Leave, Debounce, Rest
<1> QED
  BY <1>2, <1>3, <1>4, <1>5, <1>6 DEF Exit

LEMMA TypesStart == Init => Debounce /\ Rest
<1> SUFFICES ASSUME Init PROVE Debounce /\ Rest
  OBVIOUS
<1>1. timer \in [{"state", "cols"} -> Timer(marked \ Envs)]
  BY NoTimersType DEF Init
<1> QED
  BY <1>1, Named DEF Init, Debounce, Rest

LEMMA TypesStep == Debounce /\ Rest /\ IInv /\ [Next]_vars => Debounce' /\ Rest'
<1> SUFFICES ASSUME Debounce, Rest, Shape, [Next]_vars PROVE Debounce' /\ Rest'
  BY DEF IInv
<1>1. CASE UNCHANGED vars
  <2>1. marked \ Envs \subseteq marked' \ Envs /\ due' = due /\ timer' = timer /\ phase' = phase
    BY <1>1 DEF vars, uiVars, exitVars
  <2>2. Rest'
    BY <1>1 DEF vars, uiVars, exitVars, Rest
  <2> QED
    BY <2>1, <2>2, DebounceKept
<1> QED
  BY <1>1, EditTypes, FrameTypes, FireTypes, SaverTypes, ExitTypes DEF Next, AnyFrame

LEMMA TypesFollow == IInv /\ Debounce /\ Rest => TypeOK
  BY DEF IInv, Shape, SaverSet, Debounce, Rest, Timer, TypeOK

\* The variables keep their types, what is due and what a timer covers is marked, and no
\* goroutine is without work.
THEOREM TypeCorrect == Spec => []TypeOK
  BY TypesStart, TypesStep, TypesFollow, Invariance, InitInvariant, PTL DEF Spec


-----------------------------------------------------------------------------
(* The files.  Only who is about the files changes them; a new start finds *)
(* nothing unsaved.                                                        *)

Undisturbed ==
    user # "files" =>
        /\ marked = {} /\ savers = {}
        /\ \A f \in Files : f \in failed \/ disk[f] = ver[f]

FilesInv == IInv /\ Debounce /\ Rest /\ Undisturbed

LEMMA WindowFilesStart == WindowInit => FilesInv
<1>1. WindowInit => Undisturbed
  BY DEF WindowInit, Init, Undisturbed
<1> QED
  BY <1>1, InitInvariant, TypesStart DEF WindowInit, FilesInv

LEMMA FileActions ==
    ASSUME [WindowNext]_windowVars
    PROVE  [Next]_vars \/ CrashWindow
<1>1. CASE FileStep
  BY <1>1 DEF FileStep, Next, Exit
<1>2. CASE LimitStep
  BY <1>2 DEF LimitStep
<1>3. CASE DestroyWindow
  BY <1>3 DEF DestroyWindow, Next, Exit
<1>4. CASE LeaveWindow
  BY <1>4 DEF LeaveWindow, Next, Exit
<1>5. CASE UNCHANGED windowVars
  BY <1>5 DEF windowVars, bothVars
<1> QED
  BY <1>1, <1>2, <1>3, <1>4, <1>5 DEF WindowNext

\* Nothing to save is left with nothing to save.
LEMMA NothingToSave ==
    ASSUME Undisturbed, user # "files", user' = user, [WindowNext]_windowVars, ver \in [Files -> Nat],
           disk \in [Files -> Nat]
    PROVE  Undisturbed'
<1>1. marked = {} /\ savers = {} /\ \A f \in Files : f \in failed \/ disk[f] = ver[f]
  BY DEF Undisturbed
<1>2. Saver("envs", {}) = {} /\ Saver("cols", {}) = {} /\ Saver("state", {}) = {}
  BY DEF Saver
<1>3. CASE UNCHANGED <<marked, savers, ver, disk, failed>>
  BY <1>1, <1>3 DEF Undisturbed
<1>4. CASE AnyFrame
  <2>1. PICK D : D = {} /\ Frame(D)
    BY <1>1, <1>4 DEF AnyFrame
  <2>2. Start({})
    <3>1. D \cap {State} = {} /\ (D \cap Cols) \ deleted = {}
      BY <2>1
    <3> QED
      BY <1>2, <2>1, <3>1 DEF Frame
  <2>3. savers' = savers
    BY <2>2 DEF Start
  <2>4. marked' = {} /\ UNCHANGED <<ver, disk, failed>>
    BY <1>1, <2>1 DEF Frame
  <2> QED
    BY <1>1, <2>3, <2>4 DEF Undisturbed
<1>5. CASE Destroy
  <2>1. marked \cap Envs = {}
    BY <1>1
  <2>2. Start({})
    BY <1>2, <1>5, <2>1 DEF Destroy
  <2>3. savers' = savers
    BY <2>2 DEF Start
  <2>4. marked' = {} /\ UNCHANGED <<ver, disk, failed>>
    BY <1>1, <1>5 DEF Destroy
  <2> QED
    BY <1>1, <2>3, <2>4 DEF Undisturbed
<1>6. CASE Leave
  <2>1. State \in Files /\ Replace(State, ver[State])
    BY <1>6, Named DEF Leave
  <2>2. \A f \in Files : f \in failed' \/ disk'[f] = ver[f]
    <3>1. CASE disk' = [disk EXCEPT ![State] = ver[State]] /\ failed' = failed \ {State}
      BY <1>1, <2>1, <3>1
    <3>2. CASE UNCHANGED disk /\ failed' = failed \cup {State}
      BY <1>1, <2>1, <3>2
    <3> QED
      BY <2>1, <3>1, <3>2 DEF Replace
  <2>3. marked' = {} /\ savers' = {} /\ ver' = ver
    BY <1>1, <1>6 DEF Leave
  <2> QED
    BY <2>2, <2>3 DEF Undisturbed
<1>7. ~(\E c \in Cols : FlushCollection(c)) /\ ~AnySaver
  BY <1>1 DEF FlushCollection, AnySaver
<1>8. CASE AnyTimer
  BY <1>3, <1>8 DEF AnyTimer, Fire
<1>9. CASE EndWait
  BY <1>3, <1>9 DEF EndWait, uiVars
<1>10. CASE FileStep
  BY <1>4, <1>7, <1>8, <1>9, <1>10 DEF FileStep
<1>11. CASE LimitStep \/ CrashWindow \/ UNCHANGED windowVars
  BY <1>3, <1>11 DEF LimitStep, CrashWindow, vars, uiVars, windowVars, bothVars
<1> QED
  BY <1>5, <1>6, <1>10, <1>11 DEF WindowNext, DestroyWindow, LeaveWindow

\* A new start finds the files as the last one left them.
LEMMA NewStart ==
    ASSUME FilesInv, CrashWindow
    PROVE  IInv' /\ Debounce' /\ Rest'
<1>1. /\ UNCHANGED <<ver, marked, deleted, due, timer, disk, savers, overtaken, failed>>
      /\ phase' = "running" /\ how' = "none" /\ wanted' = TRUE
  BY DEF CrashWindow
<1>2. marked = {} /\ savers = {} /\ \A f \in Files : f \in failed \/ disk[f] = ver[f]
  BY DEF CrashWindow, FilesInv, Undisturbed
<1>3. Shape' /\ DeletedUnmarked' /\ DeletedStaysDeleted'
  BY <1>1 DEF FilesInv, IInv, Shape, DeletedUnmarked, DeletedStaysDeleted
<1>4. Loads' /\ InTurn'
  BY <1>1, <1>2 DEF Loads, InTurn
<1>5. AllTracked'
  BY <1>1, <1>2 DEF AllTracked, Tracked, Carried
<1>6. Closing' /\ ExitSaves'
  BY <1>1 DEF Closing, ExitSaves
<1>7. Debounce'
  <2>1. due \subseteq marked \ Envs /\ timer \in [{"state", "cols"} -> Timer(marked \ Envs)]
    BY DEF FilesInv, Debounce
  <2> QED
    BY <1>1, <2>1 DEF Debounce
<1>8. Rest'
  BY <1>1 DEF FilesInv, Rest
<1> QED
  BY <1>3, <1>4, <1>5, <1>6, <1>7, <1>8 DEF IInv

LEMMA WindowFilesStep == FilesInv /\ [WindowNext]_windowVars => FilesInv'
<1> SUFFICES ASSUME FilesInv, [WindowNext]_windowVars PROVE FilesInv'
  OBVIOUS
<1>1. user' = user
  BY DEF WindowNext, windowVars
<1>2. Undisturbed'
  <2>1. CASE user = "files"
    BY <1>1, <2>1 DEF Undisturbed
  <2>2. CASE user # "files"
    BY <1>1, <2>2, NothingToSave DEF FilesInv, IInv, Shape
  <2> QED
    BY <2>1, <2>2
<1>3. IInv' /\ Debounce' /\ Rest'
  BY FileActions, NewStart, InvariantStep, TypesStep DEF FilesInv
<1> QED
  BY <1>2, <1>3 DEF FilesInv

\* The types of the files, the timers and the save goroutines, also over new starts.
THEOREM WindowTypes == WindowSpec => []TypeOK
<1>1. FilesInv => TypeOK
  BY TypesFollow DEF FilesInv
<1> QED
  BY <1>1, WindowFilesStart, WindowFilesStep, PTL DEF WindowSpec

\* Under the window, with the limiter closed before it and new starts after it, no change
\* is forgotten and nothing that was deleted comes back.
THEOREM WindowSaves == WindowSpec => []DiskFollows
<1>1. FilesInv => DiskFollows
  BY DEF FilesInv, IInv, AllTracked, Tracked, PendingOrSaved, Settled, DiskFollows
<1> QED
  BY <1>1, WindowFilesStart, WindowFilesStep, PTL DEF WindowSpec

\* And leaving has written what it promises.
THEOREM WindowExitSaves == WindowSpec => []ExitSaves
<1>1. FilesInv => ExitSaves
  BY DEF FilesInv, IInv
<1> QED
  BY <1>1, WindowFilesStart, WindowFilesStep, PTL DEF WindowSpec

-----------------------------------------------------------------------------
(* The limiter.                                                            *)

IsOp(p) == p = [kind |-> p.kind, pc |-> p.pc, spec |-> p.spec]

LimShape ==
    /\ ops = [o \in Slots |-> ops[o]]
    /\ \A o \in Slots : IsOp(ops[o])
    /\ lim = [state |-> lim.state, spec |-> lim.spec]
    /\ lim.state \in {"idle", "active", "paused"}

\* What is true between operations.
Agree ==
    /\ lim.state = "active" => os = lim.spec /\ marker = os
    /\ lim.state = "paused" => os = NoLimit /\ marker = NoLimit
    /\ lim.state = "idle" /\ os # NoLimit => orphan /\ marker # NoLimit

\* What a leftover being cleared has to do with the state, which is not its own.
Foreign ==
    /\ lim.state # "active"
    /\ lim.state = "paused" => os = NoLimit /\ marker = NoLimit
    /\ os # NoLimit => marker # NoLimit

\* What an operation that is alone has reached.
Looking(p) == p.pc = "check" /\ p.kind \in {"pause", "resume", "cancel", "toggle"} /\ Agree

Acting(p) ==
    /\ p.pc = "act"
    /\ \/ p.kind = "apply" /\ lim.state = "idle" /\ Agree
       \/ p.kind = "resume" /\ lim.state = "paused" /\ p.spec = lim.spec /\ Agree
       \/ p.kind \in {"pause", "cancel"} /\ Agree
       \/ p.kind = "clear" /\ Foreign

Noting(p) ==
    /\ p.pc = "set"
    /\ \/ p.kind = "apply" /\ os = p.spec
       \/ p.kind = "resume" /\ os = p.spec /\ lim.spec = p.spec
       \/ p.kind \in {"pause", "cancel"} /\ os = NoLimit

Marking(p) ==
    /\ p.pc = "mark"
    /\ \/ p.kind \in {"apply", "resume"} /\ lim.state = "active" /\ lim.spec = p.spec /\ os = p.spec
       \/ p.kind \in {"pause", "cancel", "clear"} /\ lim.state # "active" /\ os = NoLimit

Reached(p) ==
    \/ Looking(p)
    \/ Acting(p)
    \/ Noting(p)
    \/ Marking(p)
    \/ p.pc = "watch" /\ Agree

\* Closing removes the limit, then its marker, then forgets it.
Ending ==
    /\ closing \in {"no", "remove", "unmark", "end", "closed"}
    /\ closing = "remove" => Agree
    /\ closing = "unmark" => os = NoLimit
    /\ closing = "end" => (os # NoLimit => orphan /\ marker # NoLimit)

Clear ==
    /\ \A o, p \in Busy : o = p
    /\ Busy = {} /\ closing \in {"no", "closed"} => Agree
    /\ \A o \in Busy : Reached(ops[o])
    /\ closing # "no" => Busy = {}
    /\ Ending

\* Who is about the files presses no button; leaving waits for the limiter otherwise.
Parted ==
    /\ user = "files" => Busy = {}
    /\ phase # "running" => user = "files" \/ closing = "closed"

LimInv == LimShape /\ Parted /\ (~muddled => Clear)

-----------------------------------------------------------------------------

stateVars == <<lim, os, marker, ops, orphan, closing, muddled>>

LEMMA LimIdle ==
    ASSUME LimInv, UNCHANGED stateVars, Parted'
    PROVE  LimInv'
<1>1. LimShape'
  BY DEF LimInv, LimShape, stateVars, IsOp
<1>2. Busy' = Busy
  BY DEF Busy, stateVars
<1>3. Agree' <=> Agree
  BY DEF Agree, stateVars
<1>4. Foreign' <=> Foreign
  BY DEF Foreign, stateVars
<1>5. \A o : Reached(ops[o])' <=> Reached(ops[o])
  BY <1>3, <1>4 DEF Reached, Looking, Acting, Noting, Marking, stateVars
<1>6. Ending' <=> Ending
  BY <1>3 DEF Ending, stateVars
<1>7. Clear' <=> Clear
  BY <1>2, <1>3, <1>5, <1>6 DEF Clear, stateVars
<1> QED
  BY <1>1, <1>7 DEF LimInv, stateVars

LEMMA NoneBusy == ASSUME LimShape PROVE Busy = {} <=> \A o \in Slots : ops[o] = NoOp
  BY DEF Busy

\* A button takes a free slot.
LEMMA GoTakes ==
    ASSUME LimShape, NEW k, NEW c, NEW x, Go(k, c, x), k # "none"
    PROVE  \E o \in Slots :
              /\ o \notin Busy
              /\ ops' = [ops EXCEPT ![o] = [kind |-> k, pc |-> c, spec |-> x]]
              /\ Busy' = Busy \cup {o}
<1> DEFINE o == Min(Slots \ Busy)
<1>1. Slots \ Busy # {} /\ Slots \ Busy \subseteq Nat
  BY LimiterAssumption DEF Go, Busy
<1>2. o \in Slots \ Busy
  <2>1. PICK m \in Slots \ Busy : \A y \in Slots \ Busy : m <= y
    BY <1>1, Least
  <2> QED
    BY <2>1 DEF Min
<1>3. ops' = [ops EXCEPT ![o] = [kind |-> k, pc |-> c, spec |-> x]]
  BY DEF Go
<1> HIDE DEF o
<1>4. [kind |-> k, pc |-> c, spec |-> x] # NoOp
  <2>1. ASSUME [kind |-> k, pc |-> c, spec |-> x] = NoOp PROVE k = "none"
    BY <2>1 DEF NoOp
  <2> QED
    BY <2>1
<1>5. \A p \in Slots : ops'[p] = IF p = o THEN [kind |-> k, pc |-> c, spec |-> x] ELSE ops[p]
  BY <1>2, <1>3 DEF LimShape
<1>6. Busy' = Busy \cup {o}
  BY <1>2, <1>4, <1>5 DEF Busy
<1> QED
  BY <1>2, <1>3, <1>6

\* A button pressed while nothing is under way starts an operation that has everything
\* before it.
LEMMA ButtonAlone ==
    ASSUME LimInv, closing = "no", NEW k, NEW c, NEW x, Go(k, c, x), k # "none",
           ~muddled' => ~muddled /\ Busy = {} /\ Reached([kind |-> k, pc |-> c, spec |-> x])',
           user # "files", user' = user, phase' = phase
    PROVE  LimInv'
<1> DEFINE n == [kind |-> k, pc |-> c, spec |-> x]
<1>1. PICK o \in Slots : o \notin Busy /\ ops' = [ops EXCEPT ![o] = n] /\ Busy' = Busy \cup {o}
  BY GoTakes DEF LimInv
<1>2. UNCHANGED <<lim, os, marker, closing>>
  BY DEF Go
<1>3. IsOp(n)
  BY DEF IsOp
<1> HIDE DEF n
<1>4. LimShape'
  <2>1. \A p \in Slots : ops'[p] = IF p = o THEN n ELSE ops[p]
    BY <1>1 DEF LimInv, LimShape
  <2>2. ops' = [p \in Slots |-> ops'[p]]
    BY <1>1 DEF LimInv, LimShape
  <2>3. \A p \in Slots : IsOp(ops'[p])
    BY <1>3, <2>1 DEF LimInv, LimShape
  <2> QED
    BY <1>2, <2>2, <2>3 DEF LimInv, LimShape, IsOp
<1>5. Parted'
  BY <1>2 DEF LimInv, Parted
<1>6. ASSUME ~muddled' PROVE Clear'
  <2>1. Busy' = {o} /\ ops'[o] = n /\ Reached(n)'
    <3>1. Busy = {} /\ Reached(n)'
      BY <1>6 DEF n
    <3> QED
      BY <1>1, <3>1 DEF LimInv, LimShape
  <2>2. closing' = "no"
    BY <1>2
  <2>3. Ending'
    BY <2>2 DEF Ending
  <2>4. \A p \in Busy' : Reached(ops[p])'
    <3>1. Reached(ops[o])'
      BY <2>1 DEF Reached, Looking, Acting, Noting, Marking
    <3> QED
      BY <2>1, <3>1
  <2> QED
    BY <2>1, <2>2, <2>3, <2>4 DEF Clear
<1> QED
  BY <1>4, <1>5, <1>6 DEF LimInv

\* An operation that goes on, or is over (NoOp), leaves it that way.
LEMMA OpAlone ==
    ASSUME LimInv, NEW o \in Slots, ops[o] # NoOp, NEW n, IsOp(n), ops' = [ops EXCEPT ![o] = n],
           lim' = [state |-> lim'.state, spec |-> lim'.spec], lim'.state \in {"idle", "active", "paused"},
           UNCHANGED <<user, phase, closing>>, ~muddled' => ~muddled,
           ~muddled' /\ Reached(ops[o]) => IF n = NoOp THEN Agree' ELSE Reached(n)'
    PROVE  LimInv'
<1>1. \A p \in Slots : ops'[p] = IF p = o THEN n ELSE ops[p]
  BY DEF LimInv, LimShape
<1>2. LimShape'
  <2>1. ops' = [p \in Slots |-> ops'[p]]
    BY DEF LimInv, LimShape
  <2>2. \A p \in Slots : IsOp(ops'[p])
    BY <1>1 DEF LimInv, LimShape
  <2> QED
    BY <2>1, <2>2 DEF LimShape, IsOp
<1>3. o \in Busy /\ user # "files"
  BY DEF Busy, LimInv, Parted
<1>4. Parted'
  BY <1>3 DEF LimInv, Parted
<1>5. ASSUME ~muddled' PROVE Clear'
  <2>1. Clear
    BY <1>5 DEF LimInv
  <2>2. Busy = {o} /\ closing = "no" /\ Reached(ops[o])
    BY <1>3, <2>1 DEF Clear
  <2>3. Ending'
    BY <2>2 DEF Ending
  <2>4. CASE n = NoOp
    <3>1. Busy' = {}
      BY <1>1, <2>2, <2>4 DEF Busy
    <3>2. Agree'
      BY <1>5, <2>2, <2>4
    <3> QED
      BY <2>3, <3>1, <3>2 DEF Clear
  <2>5. CASE n # NoOp
    <3>1. Busy' = {o} /\ ops'[o] = n
      BY <1>1, <2>2, <2>5 DEF Busy
    <3>2. Reached(n)'
      BY <1>5, <2>2, <2>5
    <3>3. Reached(ops[o])'
      BY <3>1, <3>2 DEF Reached, Looking, Acting, Noting, Marking
    <3> QED
      BY <2>2, <2>3, <3>1, <3>3 DEF Clear
  <2> QED
    BY <2>4, <2>5
<1> QED
  BY <1>2, <1>4, <1>5 DEF LimInv

\* Moved and Over say what becomes of the operation.
LEMMA MovedTo ==
    ASSUME LimShape, NEW o \in Slots, NEW pc, Moved(o, pc)
    PROVE  ops' = [ops EXCEPT ![o] = [kind |-> ops[o].kind, pc |-> pc, spec |-> ops[o].spec]]
<1>1. ops' = [ops EXCEPT ![o] = [ops[o] EXCEPT !.pc = pc]]
  BY DEF Moved
<1>2. [ops[o] EXCEPT !.pc = pc] = [kind |-> ops[o].kind, pc |-> pc, spec |-> ops[o].spec]
  BY DEF LimShape, IsOp
<1> QED
  BY <1>1, <1>2

LEMMA NoOpIsOp == IsOp(NoOp) /\ NoOp.pc = "none" /\ NoOp.kind = "none"
  BY DEF IsOp, NoOp

-----------------------------------------------------------------------------
(* The buttons.                                                            *)

LEMMA StartAlone ==
    ASSUME LimInv, StartLimit, closing = "no", user # "files", UNCHANGED <<user, phase>>
    PROVE  LimInv'
<1>1. PICK x : x = Spec0
  OBVIOUS
<1>2. Go("apply", "act", x) /\ UNCHANGED <<lim, os, marker, orphan>>
  BY <1>1 DEF StartLimit, Go
<1>3. ASSUME ~muddled' PROVE ~muddled /\ Busy = {} /\ Reached([kind |-> "apply", pc |-> "act", spec |-> x])'
  <2>1. ~muddled /\ Busy = {}
    BY <1>3 DEF StartLimit, Meets
  <2>2. Agree
    BY <2>1 DEF LimInv, Clear
  <2>3. Agree'
    BY <1>2, <2>2 DEF Agree
  <2>4. lim'.state = "idle"
    BY <1>2 DEF StartLimit
  <2> QED
    BY <2>1, <2>3, <2>4 DEF Reached, Acting
<1> QED
  BY <1>2, <1>3, ButtonAlone

LEMMA ClearAlone ==
    ASSUME LimInv, ClearLeftover, closing = "no", user # "files", UNCHANGED <<user, phase>>
    PROVE  LimInv'
<1>1. PICK x : x = NoLimit
  OBVIOUS
<1>2. Go("clear", "act", x) /\ UNCHANGED <<lim, os, marker>>
  BY <1>1 DEF ClearLeftover, Go
<1>3. ASSUME ~muddled' PROVE ~muddled /\ Busy = {} /\ Reached([kind |-> "clear", pc |-> "act", spec |-> x])'
  <2>1. ~muddled /\ Busy = {} /\ lim.state # "active"
    BY <1>3 DEF ClearLeftover, Meets
  <2>2. Agree
    BY <2>1 DEF LimInv, Clear
  <2>3. Foreign'
    BY <1>2, <2>1, <2>2 DEF Agree, Foreign, LimInv, LimShape
  <2> QED
    BY <2>1, <2>3 DEF Reached, Acting
<1> QED
  BY <1>2, <1>3, ButtonAlone

\* The other buttons have a look first.
LEMMA LookAlone ==
    ASSUME LimInv, NEW k \in {"pause", "resume", "cancel", "toggle"}, Go(k, "check", NoLimit),
           muddled' = (muddled \/ Meets), UNCHANGED secVars,
           closing = "no", user # "files", UNCHANGED <<user, phase>>
    PROVE  LimInv'
<1>1. UNCHANGED <<lim, os, marker, orphan>>
  BY DEF secVars, Go
<1>2. ASSUME ~muddled' PROVE ~muddled /\ Busy = {} /\ Reached([kind |-> k, pc |-> "check", spec |-> NoLimit])'
  <2>1. ~muddled /\ Busy = {}
    BY <1>2 DEF Meets
  <2>2. Agree
    BY <2>1 DEF LimInv, Clear
  <2>3. Agree'
    BY <1>1, <2>2 DEF Agree
  <2> QED
    BY <2>1, <2>3 DEF Reached, Looking
<1>3. k # "none"
  OBVIOUS
<1> QED
  BY <1>2, <1>3, ButtonAlone

LEMMA ButtonsAlone ==
    ASSUME LimInv, Buttons, closing = "no", user # "files", UNCHANGED <<user, phase>>
    PROVE  LimInv'
<1>1. CASE PauseOrResume
  BY <1>1, LookAlone DEF PauseOrResume
<1>2. CASE CancelLimit
  BY <1>2, LookAlone DEF CancelLimit
<1>3. CASE ToggleLimit
  BY <1>3, LookAlone DEF ToggleLimit
<1> QED
  BY <1>1, <1>2, <1>3, StartAlone, ClearAlone DEF Buttons

LEMMA PicksKeep ==
    ASSUME LimInv, Pick, UNCHANGED <<user, phase>>
    PROVE  LimInv'
<1>1. UNCHANGED stateVars
  BY DEF Pick, ScopeSystem, ScopeApp, PickProc, stateVars
<1>2. Parted'
  <2>1. Busy' = Busy
    BY <1>1 DEF stateVars, Busy
  <2> QED
    BY <1>1, <2>1 DEF LimInv, Parted, stateVars
<1> QED
  BY <1>1, <1>2, LimIdle

-----------------------------------------------------------------------------
(* The operations.                                                         *)

LEMMA CheckAlone ==
    ASSUME LimInv, NEW o \in Slots, Check(o), UNCHANGED <<user, phase>>
    PROVE  LimInv'
<1>1. At(o, "check") /\ UNCHANGED <<lim, os, marker, orphan, closing, muddled>> /\ ops[o].pc = "check"
  BY DEF Check, opOnly, secVars, endVars, At
<1>2. ops[o] # NoOp
  BY <1>1, NoOpIsOp
<1>3. lim' = [state |-> lim'.state, spec |-> lim'.spec] /\ lim'.state \in {"idle", "active", "paused"}
  BY <1>1 DEF LimInv, LimShape
<1>4. Reached(ops[o]) => Looking(ops[o])
  BY <1>1 DEF Reached, Acting, Noting, Marking
<1>5. Agree => Agree'
  BY <1>1 DEF Agree
<1>6. CASE lim.state \in Wants(Kind(o))
  <2>1. PICK k, s, n : k = Kind(o) /\ s = lim.spec /\ n = [kind |-> k, pc |-> "act", spec |-> s]
    OBVIOUS
  <2>2. ops' = [ops EXCEPT ![o] = n]
    BY <1>6, <2>1 DEF Check
  <2>3. IsOp(n) /\ n.pc = "act" /\ n.kind = k /\ n.spec = s /\ n # NoOp
    BY <2>1, NoOpIsOp DEF IsOp
  <2>4. ASSUME Reached(ops[o]) PROVE Reached(n)'
    <3>1. Agree' /\ ops[o].kind \in {"pause", "resume", "cancel", "toggle"}
      BY <1>4, <1>5, <2>4 DEF Looking
    <3>2. k \in {"pause", "resume", "cancel"}
      BY <2>1, <3>1 DEF Kind
    <3>3. k = "resume" => lim.state = "paused"
      BY <1>6, <2>1 DEF Wants
    <3> QED
      BY <1>1, <2>1, <2>3, <3>1, <3>2, <3>3 DEF Reached, Acting
  <2> QED
    BY <1>1, <1>2, <1>3, <2>2, <2>3, <2>4, OpAlone
<1>7. CASE lim.state \notin Wants(Kind(o))
  <2>1. ops' = [ops EXCEPT ![o] = NoOp]
    BY <1>7 DEF Check, Over
  <2>2. Reached(ops[o]) => Agree'
    BY <1>4, <1>5 DEF Looking
  <2> QED
    BY <1>1, <1>2, <1>3, <2>1, <2>2, NoOpIsOp, OpAlone
<1> QED
  BY <1>6, <1>7

\* A limit that is refused leaves all as it was; one that breaks is muddled.
LEMMA ApplyAlone ==
    ASSUME LimInv, NEW o \in Slots, ActApply(o), UNCHANGED <<user, phase>>
    PROVE  LimInv'
<1>1. ops[o].pc = "act" /\ ops[o].kind \in {"apply", "resume"} /\ UNCHANGED <<lim, marker, orphan, closing>>
  BY DEF ActApply, opOnly, secVars, endVars, At, Applies
<1>2. ops[o] # NoOp
  BY <1>1, NoOpIsOp
<1>3. lim' = [state |-> lim'.state, spec |-> lim'.spec] /\ lim'.state \in {"idle", "active", "paused"}
  BY <1>1 DEF LimInv, LimShape
<1>4. Reached(ops[o]) => Acting(ops[o]) /\ Agree
  BY <1>1 DEF Reached, Looking, Acting, Noting, Marking
<1>5. CASE Moved(o, "set") /\ os' = ops[o].spec /\ UNCHANGED muddled
  <2>1. PICK n : n = [kind |-> ops[o].kind, pc |-> "set", spec |-> ops[o].spec]
    OBVIOUS
  <2>2. ops' = [ops EXCEPT ![o] = n]
    BY <1>5, <2>1, MovedTo DEF LimInv
  <2>3. IsOp(n) /\ n.pc = "set" /\ n.kind = ops[o].kind /\ n.spec = ops[o].spec /\ n # NoOp
    BY <2>1, NoOpIsOp DEF IsOp
  <2>4. ASSUME Reached(ops[o]) PROVE Reached(n)'
    <3>1. n.kind = "resume" => lim'.spec = n.spec
      BY <1>1, <1>4, <2>3, <2>4 DEF Acting
    <3>2. os' = n.spec
      BY <1>5, <2>3
    <3> QED
      BY <1>1, <2>3, <3>1, <3>2 DEF Reached, Noting
  <2> QED
    BY <1>1, <1>2, <1>3, <1>5, <2>2, <2>3, <2>4, OpAlone
<1>6. CASE Over(o) /\ UNCHANGED <<os, muddled>>
  <2>1. ops' = [ops EXCEPT ![o] = NoOp]
    BY <1>6 DEF Over
  <2>2. Reached(ops[o]) => Agree'
    BY <1>1, <1>4, <1>6 DEF Agree
  <2> QED
    BY <1>1, <1>2, <1>3, <1>6, <2>1, <2>2, NoOpIsOp, OpAlone
<1>7. CASE Over(o) /\ muddled' = TRUE
  <2>1. ops' = [ops EXCEPT ![o] = NoOp]
    BY <1>7 DEF Over
  <2> QED
    BY <1>1, <1>2, <1>3, <1>7, <2>1, NoOpIsOp, OpAlone
<1> QED
  BY <1>5, <1>6, <1>7 DEF ActApply

LEMMA RemoveAlone ==
    ASSUME LimInv, NEW o \in Slots, ActRemove(o), UNCHANGED <<user, phase>>
    PROVE  LimInv'
<1>1. ops[o].pc = "act" /\ ops[o].kind \notin {"apply", "resume"} /\ UNCHANGED <<lim, marker, orphan, closing>>
  BY DEF ActRemove, opOnly, secVars, endVars, At, Applies
<1>2. ops[o] # NoOp
  BY <1>1, NoOpIsOp
<1>3. lim' = [state |-> lim'.state, spec |-> lim'.spec] /\ lim'.state \in {"idle", "active", "paused"}
  BY <1>1 DEF LimInv, LimShape
<1>4. Reached(ops[o]) => Acting(ops[o])
  BY <1>1 DEF Reached, Looking, Acting, Noting, Marking
<1>5. ~muddled' => ~muddled /\ os' = NoLimit
  BY DEF ActRemove
<1>6. PICK c, n : /\ c = IF ops[o].kind = "clear" THEN "mark" ELSE "set"
                  /\ n = [kind |-> ops[o].kind, pc |-> c, spec |-> ops[o].spec]
  OBVIOUS
<1>7. ops' = [ops EXCEPT ![o] = n]
  <2>1. Moved(o, c)
    BY <1>6 DEF ActRemove
  <2> QED
    BY <1>6, <2>1, MovedTo DEF LimInv
<1>8. IsOp(n) /\ n.pc = c /\ n.kind = ops[o].kind /\ n.spec = ops[o].spec /\ n # NoOp
  BY <1>6, NoOpIsOp DEF IsOp
<1>9. ASSUME ~muddled', Reached(ops[o]) PROVE Reached(n)'
  <2>1. os' = NoLimit
    BY <1>5, <1>9
  <2>2. CASE n.kind = "clear"
    <3>1. c = "mark" /\ lim'.state # "active"
      BY <1>1, <1>4, <1>6, <1>8, <1>9, <2>2 DEF Acting, Foreign
    <3> QED
      BY <1>8, <2>1, <2>2, <3>1 DEF Reached, Marking
  <2>3. CASE n.kind # "clear"
    <3>1. c = "set" /\ n.kind \in {"pause", "cancel"}
      BY <1>1, <1>4, <1>6, <1>8, <1>9, <2>3 DEF Acting
    <3> QED
      BY <1>8, <2>1, <3>1 DEF Reached, Noting
  <2> QED
    BY <2>2, <2>3
<1> QED
  BY <1>1, <1>2, <1>3, <1>5, <1>7, <1>8, <1>9, OpAlone

LEMMA SetStateAlone ==
    ASSUME LimInv, NEW o \in Slots, SetState(o), UNCHANGED <<user, phase>>
    PROVE  LimInv'
<1>1. ops[o].pc = "set" /\ UNCHANGED <<os, marker, orphan, closing, muddled>>
  BY DEF SetState, opOnly, secVars, endVars, At
<1>2. ops[o] # NoOp
  BY <1>1, NoOpIsOp
<1>3. Reached(ops[o]) => Noting(ops[o])
  BY <1>1 DEF Reached, Looking, Acting, Marking
<1>4. PICK n : n = [kind |-> ops[o].kind, pc |-> "mark", spec |-> ops[o].spec]
  OBVIOUS
<1>5. ops' = [ops EXCEPT ![o] = n]
  BY <1>4, MovedTo DEF LimInv, SetState
<1>6. IsOp(n) /\ n.pc = "mark" /\ n.kind = ops[o].kind /\ n.spec = ops[o].spec /\ n # NoOp
  BY <1>4, NoOpIsOp DEF IsOp
<1>7. CASE n.kind = "apply"
  <2>1. lim' = [state |-> "active", spec |-> n.spec]
    BY <1>6, <1>7 DEF SetState
  <2>2. Reached(ops[o]) => Reached(n)'
    BY <1>1, <1>3, <1>6, <1>7, <2>1 DEF Reached, Noting, Marking
  <2> QED
    BY <1>1, <1>2, <1>5, <1>6, <2>1, <2>2, OpAlone
<1>8. CASE n.kind = "resume"
  <2>1. lim' = [state |-> "active", spec |-> lim.spec]
    <3>1. lim' = [lim EXCEPT !.state = "active"]
      BY <1>6, <1>8 DEF SetState
    <3> QED
      BY <3>1 DEF LimInv, LimShape
  <2>2. Reached(ops[o]) => Reached(n)'
    BY <1>1, <1>3, <1>6, <1>8, <2>1 DEF Reached, Noting, Marking
  <2> QED
    BY <1>1, <1>2, <1>5, <1>6, <2>1, <2>2, OpAlone
<1>9. CASE n.kind = "pause"
  <2>1. lim' = [state |-> "paused", spec |-> lim.spec]
    <3>1. lim' = [lim EXCEPT !.state = "paused"]
      BY <1>6, <1>9 DEF SetState
    <3> QED
      BY <3>1 DEF LimInv, LimShape
  <2>2. Reached(ops[o]) => Reached(n)'
    BY <1>1, <1>3, <1>6, <1>9, <2>1 DEF Reached, Noting, Marking
  <2> QED
    BY <1>1, <1>2, <1>5, <1>6, <2>1, <2>2, OpAlone
<1>10. CASE n.kind \notin {"apply", "resume", "pause"}
  <2>1. lim' = [state |-> "idle", spec |-> NoLimit]
    BY <1>6, <1>10 DEF SetState, Off
  <2>2. Reached(ops[o]) => Reached(n)'
    BY <1>1, <1>3, <1>6, <1>10, <2>1 DEF Reached, Noting, Marking
  <2> QED
    BY <1>1, <1>2, <1>5, <1>6, <2>1, <2>2, OpAlone
<1> QED
  BY <1>7, <1>8, <1>9, <1>10

LEMMA MarkAlone ==
    ASSUME LimInv, NEW o \in Slots, Mark(o), UNCHANGED <<user, phase>>
    PROVE  LimInv'
<1>1. ops[o].pc = "mark" /\ UNCHANGED <<lim, os, orphan, closing, muddled>>
  BY DEF Mark, opOnly, secVars, endVars, At
<1>2. ops[o] # NoOp
  BY <1>1, NoOpIsOp
<1>3. lim' = [state |-> lim'.state, spec |-> lim'.spec] /\ lim'.state \in {"idle", "active", "paused"}
  BY <1>1 DEF LimInv, LimShape
<1>4. Reached(ops[o]) => Agree'
  <2>1. Reached(ops[o]) => Marking(ops[o])
    BY <1>1 DEF Reached, Looking, Acting, Noting
  <2>2. marker' = IF ops[o].kind \in {"apply", "resume"} THEN ops[o].spec ELSE NoLimit
    BY DEF Mark, Applies
  <2> QED
    BY <1>1, <2>1, <2>2 DEF Marking, Agree
<1>5. CASE Moved(o, "watch")
  <2>1. PICK n : n = [kind |-> ops[o].kind, pc |-> "watch", spec |-> ops[o].spec]
    OBVIOUS
  <2>2. ops' = [ops EXCEPT ![o] = n]
    BY <1>5, <2>1, MovedTo DEF LimInv
  <2>3. IsOp(n) /\ n.pc = "watch" /\ n # NoOp
    BY <2>1, NoOpIsOp DEF IsOp
  <2>4. Reached(ops[o]) => Reached(n)'
    BY <1>4, <2>3 DEF Reached
  <2> QED
    BY <1>1, <1>2, <1>3, <2>2, <2>3, <2>4, OpAlone
<1>6. CASE Over(o)
  BY <1>1, <1>2, <1>3, <1>4, <1>6, NoOpIsOp, OpAlone DEF Over
<1> QED
  BY <1>5, <1>6 DEF Mark

LEMMA WatchAlone ==
    ASSUME LimInv, NEW o \in Slots, Watch(o), UNCHANGED <<user, phase>>
    PROVE  LimInv'
<1>1. ops[o].pc = "watch" /\ UNCHANGED <<lim, os, marker, orphan, closing, muddled>>
  BY DEF Watch, opOnly, secVars, endVars, At
<1>2. ops[o] # NoOp
  BY <1>1, NoOpIsOp
<1>3. lim' = [state |-> lim'.state, spec |-> lim'.spec] /\ lim'.state \in {"idle", "active", "paused"}
  BY <1>1 DEF LimInv, LimShape
<1>4. Reached(ops[o]) => Agree'
  <2>1. Reached(ops[o]) => Agree
    BY <1>1 DEF Reached, Looking, Acting, Noting, Marking
  <2> QED
    BY <1>1, <2>1 DEF Agree
<1>5. ops' = [ops EXCEPT ![o] = NoOp]
  BY DEF Watch, Over
<1> QED
  BY <1>1, <1>2, <1>3, <1>4, <1>5, NoOpIsOp, OpAlone

LEMMA OpsKeep ==
    ASSUME LimInv, NEW o \in Slots, OpStep(o), UNCHANGED <<user, phase>>
    PROVE  LimInv'
BY CheckAlone, ApplyAlone, RemoveAlone, SetStateAlone, MarkAlone, WatchAlone DEF OpStep

-----------------------------------------------------------------------------
(* Closing, leaving, crashing.                                             *)

\* What changes neither the operations nor the state.
LEMMA ShapeKept ==
    ASSUME LimShape, UNCHANGED <<ops, lim>>
    PROVE  LimShape' /\ Busy' = Busy
BY DEF LimShape, IsOp, Busy

LEMMA CloseBeginKeeps ==
    ASSUME LimInv, CloseBegin, phase = "running", UNCHANGED <<user, phase>>
    PROVE  LimInv'
<1>1. UNCHANGED <<lim, os, marker, ops, orphan>> /\ closing = "no"
  BY DEF CloseBegin, secVars
<1>2. LimShape' /\ Busy' = Busy
  BY <1>1, ShapeKept DEF LimInv
<1>3. Parted'
  BY <1>2 DEF LimInv, Parted
<1>4. ASSUME ~muddled' PROVE Clear'
  <2>1. ~muddled /\ Busy = {}
    BY <1>4 DEF CloseBegin, Meets
  <2>2. Agree
    BY <1>1, <2>1 DEF LimInv, Clear
  <2>3. Agree'
    BY <1>1, <2>2 DEF Agree
  <2>4. closing' = IF lim.state # "idle" THEN "remove" ELSE "end"
    BY DEF CloseBegin
  <2>5. closing' = "end" => (os' # NoLimit => orphan' /\ marker' # NoLimit)
    BY <1>1, <2>2, <2>4 DEF Agree
  <2>6. Ending'
    BY <2>3, <2>4, <2>5 DEF Ending
  <2> QED
    BY <1>2, <2>1, <2>3, <2>6 DEF Clear
<1> QED
  BY <1>2, <1>3, <1>4 DEF LimInv

LEMMA CloseRemoveKeeps ==
    ASSUME LimInv, CloseRemove, UNCHANGED <<user, phase>>
    PROVE  LimInv'
<1>1. UNCHANGED <<lim, marker, ops, orphan>> /\ closing = "remove" /\ closing' = "unmark"
  BY DEF CloseRemove, secVars
<1>2. LimShape' /\ Busy' = Busy
  BY <1>1, ShapeKept DEF LimInv
<1>3. Parted'
  BY <1>1, <1>2 DEF LimInv, Parted
<1>4. ASSUME ~muddled' PROVE Clear'
  <2>1. ~muddled /\ os' = NoLimit
    BY <1>4 DEF CloseRemove
  <2>2. Busy' = {}
    BY <1>1, <1>2, <2>1 DEF LimInv, Clear
  <2>3. Ending'
    BY <1>1, <2>1 DEF Ending
  <2> QED
    BY <1>1, <2>2, <2>3 DEF Clear
<1> QED
  BY <1>2, <1>3, <1>4 DEF LimInv

LEMMA CloseUnmarkKeeps ==
    ASSUME LimInv, CloseUnmark, UNCHANGED <<user, phase>>
    PROVE  LimInv'
<1>1. UNCHANGED <<lim, os, ops, orphan, muddled>> /\ closing = "unmark" /\ closing' = "end"
  BY DEF CloseUnmark, secVars
<1>2. LimShape' /\ Busy' = Busy
  BY <1>1, ShapeKept DEF LimInv
<1>3. Parted'
  BY <1>1, <1>2 DEF LimInv, Parted
<1>4. ASSUME ~muddled' PROVE Clear'
  <2>1. Busy' = {} /\ os' = NoLimit
    BY <1>1, <1>2, <1>4 DEF LimInv, Clear, Ending
  <2>2. Ending'
    BY <1>1, <2>1 DEF Ending
  <2> QED
    BY <1>1, <2>1, <2>2 DEF Clear
<1> QED
  BY <1>2, <1>3, <1>4 DEF LimInv

\* DestroyEvent has come to its end, whatever becomes of the program then.
LEMMA CloseEndKeeps ==
    ASSUME LimInv, CloseEnd, user' = user
    PROVE  LimInv'
<1>1. UNCHANGED <<os, marker, ops, orphan, muddled>> /\ closing = "end" /\ closing' = "closed"
  BY DEF CloseEnd, secVars
<1>2. lim' = [state |-> "idle", spec |-> NoLimit]
  BY DEF CloseEnd, Off
<1>3. LimShape' /\ Busy' = Busy
  BY <1>1, <1>2 DEF LimInv, LimShape, IsOp, Busy
<1>4. Parted'
  BY <1>1, <1>3 DEF LimInv, Parted
<1>5. ASSUME ~muddled' PROVE Clear'
  <2>1. Busy' = {} /\ (os # NoLimit => orphan /\ marker # NoLimit)
    BY <1>1, <1>3, <1>5 DEF LimInv, Clear, Ending
  <2>2. Agree'
    BY <1>1, <1>2, <2>1 DEF Agree
  <2>3. Ending'
    BY <1>1 DEF Ending
  <2> QED
    BY <1>1, <2>1, <2>2, <2>3 DEF Clear
<1> QED
  BY <1>3, <1>4, <1>5 DEF LimInv

\* The operations that end with the process are over by then, or they met something.
LEMMA DieKeeps ==
    ASSUME LimInv, Die, phase # "running", user' = user
    PROVE  LimInv'
<1>1. UNCHANGED <<lim, os, marker, orphan, closing, muddled>> /\ ops' = [o \in Slots |-> NoOp]
  BY DEF Die, secVars, endVars
<1>2. Busy' = {}
  BY <1>1 DEF Busy
<1>3. LimShape'
  BY <1>1, NoOpIsOp DEF LimInv, LimShape, IsOp
<1>4. Parted'
  BY <1>1, <1>2 DEF LimInv, Parted
<1>5. ASSUME ~muddled' PROVE Clear'
  <2>1. Clear /\ Busy = {}
    BY <1>1, <1>5 DEF LimInv, Clear, Parted
  <2>2. Agree' <=> Agree
    BY <1>1 DEF Agree
  <2>3. Ending'
    BY <1>1, <2>1, <2>2 DEF Clear, Ending
  <2> QED
    BY <1>1, <1>2, <2>1, <2>2, <2>3 DEF Clear
<1> QED
  BY <1>3, <1>4, <1>5 DEF LimInv

\* A limit in force has its marker, unless the operation is between the two.
LEMMA InForceIsMarked ==
    ASSUME LimShape, Clear, os # NoLimit
    PROVE  marker # NoLimit \/ NotYetMarked
<1>1. Agree => marker # NoLimit
  BY DEF LimShape, Agree
<1>2. CASE Busy = {}
  <2>1. closing \in {"no", "closed", "remove"} => Agree
    BY <1>2 DEF Clear, Ending
  <2>2. closing = "unmark" => FALSE
    BY DEF Clear, Ending
  <2>3. closing = "end" => marker # NoLimit
    BY DEF Clear, Ending
  <2>4. closing \in {"no", "closed", "remove", "unmark", "end"}
    BY DEF Clear, Ending
  <2> QED
    BY <1>1, <2>1, <2>2, <2>3, <2>4
<1>3. CASE Busy # {}
  <2>1. PICK o \in Busy : Reached(ops[o])
    BY <1>3 DEF Clear
  <2>2. o \in Slots
    BY DEF Busy
  <2>3. CASE Looking(ops[o]) \/ (ops[o].pc = "watch" /\ Agree)
    BY <1>1, <2>3 DEF Looking
  <2>4. CASE Acting(ops[o])
    BY <1>1, <2>4 DEF Acting, Foreign
  <2>5. CASE Noting(ops[o])
    <3>1. Applies(o) /\ At(o, "set")
      BY <2>5 DEF Noting, Applies, At
    <3> QED
      BY <2>2, <3>1 DEF NotYetMarked
  <2>6. CASE Marking(ops[o])
    <3>1. Applies(o) /\ At(o, "mark")
      BY <2>6 DEF Marking, Applies, At
    <3> QED
      BY <2>2, <3>1 DEF NotYetMarked
  <2> QED
    BY <2>1, <2>3, <2>4, <2>5, <2>6 DEF Reached
<1> QED
  BY <1>2, <1>3

LEMMA CrashKeeps ==
    ASSUME LimInv, CrashLimiter, phase' = "running", user' = user
    PROVE  LimInv'
<1>1. /\ lim' = [state |-> "idle", spec |-> NoLimit] /\ ops' = [o \in Slots |-> NoOp] /\ closing' = "no"
      /\ orphan' = (marker # NoLimit) /\ UNCHANGED <<os, marker>>
      /\ muddled' = (muddled \/ (NotYetMarked /\ marker = NoLimit))
  BY DEF CrashLimiter, Fresh, Off
<1>2. Busy' = {}
  BY <1>1 DEF Busy
<1>3. LimShape'
  BY <1>1, NoOpIsOp DEF LimShape, IsOp
<1>4. Parted'
  BY <1>2 DEF Parted
<1>5. ASSUME ~muddled' PROVE Clear'
  <2>1. os # NoLimit => marker # NoLimit
    BY <1>1, <1>5, InForceIsMarked DEF LimInv
  <2>2. Agree'
    BY <1>1, <2>1 DEF Agree
  <2>3. Ending'
    BY <1>1 DEF Ending
  <2> QED
    BY <1>1, <1>2, <2>2, <2>3 DEF Clear
<1> QED
  BY <1>3, <1>4, <1>5 DEF LimInv

-----------------------------------------------------------------------------

LEMMA LimStart == WindowInit => LimInv
<1> SUFFICES ASSUME WindowInit PROVE LimInv
  OBVIOUS
<1>1. /\ lim = [state |-> "idle", spec |-> NoLimit] /\ ops = [o \in Slots |-> NoOp] /\ closing = "no"
      /\ os = NoLimit
  BY DEF WindowInit, LimInit, Off
<1>2. Busy = {} /\ phase = "running"
  BY <1>1 DEF Busy, WindowInit, Init
<1>3. LimShape
  BY <1>1, NoOpIsOp DEF LimShape, IsOp
<1>4. Parted
  BY <1>2 DEF Parted
<1>5. Agree /\ Ending
  BY <1>1 DEF Agree, Ending
<1> QED
  BY <1>1, <1>2, <1>3, <1>4, <1>5 DEF LimInv, Clear

\* Only the restart leaves without the limiter, and that is for who is about the files.
LEMMA FilesKeep ==
    ASSUME LimInv, FileStep, user' = user
    PROVE  LimInv'
<1>1. UNCHANGED stateVars
  BY DEF FileStep, limVars, stateVars
<1>2. Busy' = Busy
  BY <1>1 DEF stateVars, Busy
<1>3. phase' = phase \/ phase # "running" \/ user = "files"
  <2>1. CASE AnyFrame \/ AnyTimer
    BY <2>1 DEF AnyFrame, Frame, AnyTimer, Fire, exitVars
  <2>2. CASE AnySaver
    BY <2>2 DEF AnySaver, Lock, Write, exitVars
  <2>3. CASE EndWait
    BY <2>3 DEF EndWait
  <2>4. CASE \E c \in Cols : FlushCollection(c)
    BY <2>4 DEF FlushCollection, exitVars
  <2> QED
    BY <2>1, <2>2, <2>3, <2>4 DEF FileStep
<1>4. Parted'
  BY <1>1, <1>2, <1>3 DEF LimInv, Parted, stateVars
<1> QED
  BY <1>1, <1>4, LimIdle

LEMMA LimitsKeep ==
    ASSUME LimInv, LimitStep, user' = user
    PROVE  LimInv'
<1>1. phase' = phase
  BY DEF LimitStep, vars, exitVars
<1>2. CASE Responsive /\ user \in {"limits", "speeds"} /\ Pick
  BY <1>1, <1>2, PicksKeep
<1>3. CASE Responsive /\ user = "limits" /\ Buttons
  BY <1>1, <1>3, ButtonsAlone DEF Responsive
<1>4. CASE \E o \in Slots : OpStep(o)
  BY <1>1, <1>4, OpsKeep
<1>5. CASE \E counted \in BOOLEAN : Tick(counted)
  <2>1. UNCHANGED stateVars
    BY <1>5 DEF Tick, stateVars, secVars, endVars
  <2>2. Busy' = Busy
    BY <2>1 DEF stateVars, Busy
  <2>3. Parted'
    BY <1>1, <2>1, <2>2 DEF LimInv, Parted, stateVars
  <2> QED
    BY <2>1, <2>3, LimIdle
<1>6. CASE Responsive /\ CloseBegin
  BY <1>1, <1>6, CloseBeginKeeps DEF Responsive, Running
<1>7. CASE CloseStep
  BY <1>1, <1>7, CloseRemoveKeeps, CloseUnmarkKeeps DEF CloseStep
<1> QED
  BY <1>2, <1>3, <1>4, <1>5, <1>6, <1>7 DEF LimitStep

LEMMA LimStep == LimInv /\ [WindowNext]_windowVars => LimInv'
<1> SUFFICES ASSUME LimInv, [WindowNext]_windowVars PROVE LimInv'
  OBVIOUS
<1>1. user' = user
  BY DEF WindowNext, windowVars
<1>2. CASE DestroyWindow
  BY <1>1, <1>2, CloseEndKeeps DEF DestroyWindow
<1>3. CASE LeaveWindow
  BY <1>1, <1>3, DieKeeps DEF LeaveWindow, Leave
<1>4. CASE CrashWindow
  BY <1>1, <1>4, CrashKeeps DEF CrashWindow
<1>5. CASE UNCHANGED windowVars
  <2>1. UNCHANGED stateVars /\ phase' = phase
    BY <1>5 DEF windowVars, bothVars, limVars, vars, exitVars, secVars, loopVars, endVars, stateVars
  <2>2. Busy' = Busy
    BY <2>1 DEF stateVars, Busy
  <2>3. Parted'
    BY <1>1, <2>1, <2>2 DEF LimInv, Parted, stateVars
  <2> QED
    BY <2>1, <2>3, LimIdle
<1> QED
  BY <1>1, <1>2, <1>3, <1>4, <1>5, FilesKeep, LimitsKeep DEF WindowNext

LEMMA HonestFollows == LimInv => LimitHonest
BY DEF LimInv, Clear, Agree, LimitHonest

-----------------------------------------------------------------------------
(* The sample loop.                                                        *)

\* The ring holds the last samples, the newest before its position.
Sampling ==
    /\ sampled.base = 0 \/ sampled.base = sampled.watched
    /\ sampled.speed.of = sampled.speed.from
    /\ sampled.n \in Nat

Ring ==
    /\ hist.ring \in [1..HistCap -> Int]
    /\ hist.pos \in 0..(HistCap - 1) /\ hist.full \in BOOLEAN
    /\ ~hist.full => hist.pos = sampled.n
    /\ hist.full => sampled.n >= HistCap
    /\ \A i \in 1..hist.pos : hist.ring[i] = sampled.n - hist.pos + i
    /\ hist.full => \A i \in (hist.pos + 1)..HistCap : hist.ring[i] = sampled.n - hist.pos - HistCap + i

LoopInv == Sampling /\ Ring

LEMMA CapType == HistCap \in Nat /\ HistCap >= 1
  BY LimiterAssumption

\* The loop begins with nothing measured, at every start.
LEMMA LoopFresh ==
    ASSUME NEW s, NEW h, s = [n |-> 0, watched |-> 0, base |-> 0, speed |-> NoSpeed],
           h = [ring |-> [i \in 1..HistCap |-> 0], pos |-> 0, full |-> FALSE]
    PROVE  /\ s.base = 0 /\ s.speed.of = s.speed.from /\ s.n = 0
           /\ h.ring \in [1..HistCap -> Int] /\ h.pos = 0 /\ h.full = FALSE
  BY DEF NoSpeed

LEMMA LoopStart == WindowInit => LoopInv
<1> SUFFICES ASSUME WindowInit PROVE LoopInv
  OBVIOUS
<1>1. PICK s, h : s = sampled /\ h = hist
  OBVIOUS
<1>2. /\ s = [n |-> 0, watched |-> 0, base |-> 0, speed |-> NoSpeed]
      /\ h = [ring |-> [i \in 1..HistCap |-> 0], pos |-> 0, full |-> FALSE]
  BY <1>1 DEF WindowInit, LimInit
<1>3. /\ s.base = 0 /\ s.speed.of = s.speed.from /\ s.n = 0
      /\ h.ring \in [1..HistCap -> Int] /\ h.pos = 0 /\ h.full = FALSE
  BY <1>2, LoopFresh
<1>4. Sampling
  BY <1>1, <1>3 DEF Sampling
<1>5. hist.full \in BOOLEAN
  BY <1>1, <1>3
<1>6. ~hist.full
  BY <1>1, <1>3
<1>7. hist.pos = 0 /\ sampled.n = 0 /\ hist.ring \in [1..HistCap -> Int]
  BY <1>1, <1>3
<1>8. Ring
  BY <1>5, <1>6, <1>7, CapType DEF Ring
<1> QED
  BY <1>4, <1>8 DEF LoopInv

LEMMA LoopRestart ==
    ASSUME Fresh
    PROVE  LoopInv'
<1>1. PICK s, h : s = sampled' /\ h = hist'
  OBVIOUS
<1>2. /\ s = [n |-> 0, watched |-> 0, base |-> 0, speed |-> NoSpeed]
      /\ h = [ring |-> [i \in 1..HistCap |-> 0], pos |-> 0, full |-> FALSE]
  BY <1>1 DEF Fresh
<1>3. /\ s.base = 0 /\ s.speed.of = s.speed.from /\ s.n = 0
      /\ h.ring \in [1..HistCap -> Int] /\ h.pos = 0 /\ h.full = FALSE
  BY <1>2, LoopFresh
<1>4. Sampling'
  BY <1>1, <1>3 DEF Sampling
<1>5. hist'.full \in BOOLEAN
  BY <1>1, <1>3
<1>6. ~hist'.full
  BY <1>1, <1>3
<1>7. hist'.pos = 0 /\ sampled'.n = 0 /\ hist'.ring \in [1..HistCap -> Int]
  BY <1>1, <1>3
<1>8. Ring'
  BY <1>5, <1>6, <1>7, CapType DEF Ring
<1> QED
  BY <1>4, <1>8 DEF LoopInv

\* A sample goes over the oldest one.
LEMMA SampleTaken ==
    ASSUME Ring, sampled.n \in Nat, sampled'.n = sampled.n + 1, RecordHistory(sampled.n + 1)
    PROVE  Ring'
<1> DEFINE n == sampled.n
           p == hist.pos
<1>1. HistCap \in Nat /\ HistCap >= 1 /\ p \in 0..(HistCap - 1) /\ n \in Nat /\ sampled'.n = n + 1
  BY CapType DEF Ring
<1>2. PICK q, r, f : q = (p + 1) % HistCap /\ r = [hist.ring EXCEPT ![p + 1] = n + 1]
                     /\ f = (hist.full \/ p + 1 = HistCap)
  OBVIOUS
<1>3. hist' = [ring |-> r, pos |-> q, full |-> f]
  BY <1>2 DEF RecordHistory
<1>4. hist'.ring = r /\ hist'.pos = q /\ hist'.full = f
  BY <1>3
<1>5. p + 1 \in 1..HistCap
  BY <1>1
<1>6. q = IF p + 1 = HistCap THEN 0 ELSE p + 1
  <2>1. CASE p + 1 = HistCap
    BY <1>1, <1>2, <2>1
  <2>2. CASE p + 1 < HistCap
    BY <1>1, <1>2, <2>2
  <2> QED
    BY <1>1, <2>1, <2>2
<1>7. r \in [1..HistCap -> Int] /\ \A i \in 1..HistCap : r[i] = IF i = p + 1 THEN n + 1 ELSE hist.ring[i]
  <2>1. PICK g, k, v : g = hist.ring /\ k = p + 1 /\ v = n + 1
    OBVIOUS
  <2>2. g \in [1..HistCap -> Int] /\ k \in 1..HistCap /\ v \in Int
    BY <1>1, <1>5, <2>1 DEF Ring
  <2>3. r = [g EXCEPT ![k] = v]
    BY <1>2, <2>1
  <2>4. r \in [1..HistCap -> Int] /\ \A i \in 1..HistCap : r[i] = IF i = k THEN v ELSE g[i]
    BY ONLY <2>2, <2>3
  <2> QED
    BY ONLY <2>1, <2>4
<1>8. \A i \in 1..p : hist.ring[i] = n - p + i
  BY DEF Ring
<1>9. hist.full => \A i \in (p + 1)..HistCap : hist.ring[i] = n - p - HistCap + i
  BY DEF Ring
<1>10. (~hist.full => p = n) /\ hist.full \in BOOLEAN
  BY DEF Ring
<1>11. hist.full => n >= HistCap
  BY DEF Ring
<1> HIDE DEF n, p
<1>12. CASE p + 1 = HistCap
  <2>1. q = 0 /\ f = TRUE
    BY <1>2, <1>6, <1>12
  <2>2. n + 1 >= HistCap
    BY <1>1, <1>10, <1>11, <1>12
  <2>3. ASSUME NEW i \in 1..HistCap PROVE r[i] = n + 1 - HistCap + i
    <3>1. i = p + 1 \/ i \in 1..p
      BY <1>1, <1>12
    <3>2. i = p + 1 => n + 1 = n + 1 - HistCap + i
      BY <1>1, <1>12
    <3>3. i \in 1..p => i # p + 1 /\ n - p + i = n + 1 - HistCap + i
      BY <1>1, <1>12
    <3> QED
      BY <1>7, <1>8, <3>1, <3>2, <3>3
  <2>4. \A i \in (q + 1)..HistCap : r[i] = n + 1 - q - HistCap + i
    BY <1>1, <2>1, <2>3
  <2>5. q \in 0..(HistCap - 1) /\ \A i \in 1..q : r[i] = n + 1 - q + i
    BY <1>1, <2>1
  <2>6. hist'.full \in BOOLEAN
    BY <1>4, <2>1
  <2>7. hist'.full
    BY <1>4, <2>1
  <2>8. hist'.ring = r /\ hist'.pos = q
    BY <1>4
  <2>9. sampled'.n = n + 1 /\ r \in [1..HistCap -> Int]
    BY <1>1, <1>7
  <2>10. \A i \in (hist'.pos + 1)..HistCap : hist'.ring[i] = sampled'.n - hist'.pos - HistCap + i
    BY ONLY <1>1, <2>5, <2>4, <2>8, <2>9
  <2>11. \A i \in 1..hist'.pos : hist'.ring[i] = sampled'.n - hist'.pos + i
    BY ONLY <1>1, <2>5, <2>8, <2>9
  <2>12. hist'.pos \in 0..(HistCap - 1) /\ hist'.ring \in [1..HistCap -> Int] /\ sampled'.n >= HistCap
    BY ONLY <2>2, <2>5, <2>8, <2>9
  <2> QED
    BY ONLY <2>6, <2>7, <2>10, <2>11, <2>12 DEF Ring
<1>13. CASE p + 1 # HistCap
  <2>1. q = p + 1 /\ f = hist.full /\ q \in 0..(HistCap - 1)
    BY <1>1, <1>2, <1>6, <1>10, <1>13
  <2>2. ASSUME NEW i \in 1..q PROVE r[i] = n + 1 - q + i
    <3>1. i \in 1..HistCap /\ (i = p + 1 \/ i \in 1..p)
      BY <1>1, <2>1
    <3>2. i = p + 1 => n + 1 = n + 1 - q + i
      BY <1>1, <2>1
    <3>3. i \in 1..p => i # p + 1 /\ n - p + i = n + 1 - q + i
      BY <1>1, <2>1
    <3> QED
      BY <1>7, <1>8, <3>1, <3>2, <3>3
  <2>3. ASSUME hist.full, NEW i \in (q + 1)..HistCap PROVE r[i] = n + 1 - q - HistCap + i
    <3>1. i \in 1..HistCap /\ i \in (p + 1)..HistCap /\ i # p + 1
      BY <1>1, <2>1
    <3>2. n - p - HistCap + i = n + 1 - q - HistCap + i
      BY <1>1, <2>1
    <3> QED
      BY <1>7, <1>9, <2>3, <3>1, <3>2
  <2>4. (~hist.full => q = n + 1) /\ (hist.full => n + 1 >= HistCap)
    BY <1>1, <1>10, <1>11, <2>1
  <2>5. hist'.full \in BOOLEAN
    BY <1>4, <1>10, <2>1
  <2>6. hist'.full <=> hist.full
    BY <1>4, <2>1
  <2>7. hist'.ring = r /\ hist'.pos = q
    BY <1>4
  <2>8. sampled'.n = n + 1 /\ r \in [1..HistCap -> Int]
    BY <1>1, <1>7
  <2>9. hist'.full => \A i \in (hist'.pos + 1)..HistCap : hist'.ring[i] = sampled'.n - hist'.pos - HistCap + i
    BY ONLY <1>1, <2>1, <2>3, <2>6, <2>7, <2>8
  <2>10. \A i \in 1..hist'.pos : hist'.ring[i] = sampled'.n - hist'.pos + i
    BY ONLY <1>1, <2>1, <2>2, <2>7, <2>8
  <2>11. hist'.pos \in 0..(HistCap - 1) /\ hist'.ring \in [1..HistCap -> Int]
    BY ONLY <2>1, <2>7, <2>8
  <2>12. (~hist'.full => hist'.pos = sampled'.n) /\ (hist'.full => sampled'.n >= HistCap)
    BY ONLY <2>4, <2>6, <2>7, <2>8
  <2> QED
    BY ONLY <2>5, <2>9, <2>10, <2>11, <2>12 DEF Ring
<1> QED
  BY <1>12, <1>13

LEMMA TickKeeps ==
    ASSUME LoopInv, NEW counted \in BOOLEAN, Tick(counted)
    PROVE  LoopInv'
<1>1. sampled'.n = sampled.n + 1 /\ sampled'.watched = watch /\ RecordHistory(sampled.n + 1)
  BY DEF Tick
<1>2. PICK b, v : /\ b = (IF watch = sampled.watched THEN sampled.base ELSE 0)
                  /\ v = (IF watch = sampled.watched THEN sampled.speed ELSE NoSpeed)
  OBVIOUS
<1>3. /\ sampled'.base = (IF watch > 0 /\ counted THEN watch ELSE b)
      /\ sampled'.speed = (IF watch > 0 /\ counted /\ b # 0 THEN [of |-> watch, from |-> b] ELSE v)
  BY <1>2 DEF Tick
<1>4. b = 0 \/ b = watch
  BY <1>2 DEF LoopInv, Sampling
<1>5. v.of = v.from
  BY <1>2 DEF LoopInv, Sampling, NoSpeed
<1>6. sampled'.base = 0 \/ sampled'.base = sampled'.watched
  BY <1>1, <1>3, <1>4
<1>7. sampled'.speed.of = sampled'.speed.from
  <2>1. CASE watch > 0 /\ counted /\ b # 0
    <3>1. sampled'.speed = [of |-> watch, from |-> watch]
      BY <1>3, <1>4, <2>1
    <3> QED
      BY <3>1
  <2>2. CASE ~(watch > 0 /\ counted /\ b # 0)
    BY <1>3, <1>5, <2>2
  <2> QED
    BY <2>1, <2>2
<1>8. sampled'.n \in Nat
  BY <1>1 DEF LoopInv, Sampling
<1>9. Ring'
  BY <1>1, SampleTaken DEF LoopInv, Sampling
<1> QED
  BY <1>6, <1>7, <1>8, <1>9 DEF LoopInv, Sampling

LEMMA LoopKept == LoopInv /\ UNCHANGED loopVars => LoopInv'
  BY DEF LoopInv, Sampling, Ring, loopVars

LEMMA LoopStep == LoopInv /\ [WindowNext]_windowVars => LoopInv'
<1> SUFFICES ASSUME LoopInv, [WindowNext]_windowVars PROVE LoopInv'
  OBVIOUS
<1>1. CASE FileStep \/ UNCHANGED windowVars
  <2>1. UNCHANGED loopVars
    BY <1>1 DEF FileStep, limVars, windowVars, bothVars, loopVars
  <2> QED
    BY <2>1, LoopKept
<1>2. CASE Pick \/ Buttons
  <2>1. UNCHANGED loopVars
    BY <1>2 DEF Pick, ScopeSystem, ScopeApp, PickProc, Buttons, StartLimit, ClearLeftover, PauseOrResume,
                CancelLimit, ToggleLimit, Go, loopVars
  <2> QED
    BY <2>1, LoopKept
<1>3. CASE \E o \in Slots : OpStep(o)
  <2>1. UNCHANGED loopVars
    BY <1>3 DEF OpStep, Check, ActApply, ActRemove, SetState, Mark, Watch, opOnly, loopVars
  <2> QED
    BY <2>1, LoopKept
<1>4. CASE CloseBegin \/ CloseStep \/ CloseEnd \/ Die
  <2>1. UNCHANGED loopVars
    BY <1>4 DEF CloseBegin, CloseStep, CloseRemove, CloseUnmark, CloseEnd, Die, loopVars
  <2> QED
    BY <2>1, LoopKept
<1>5. CASE \E counted \in BOOLEAN : Tick(counted)
  BY <1>5, TickKeeps
<1>6. CASE CrashLimiter
  BY <1>6, LoopRestart DEF CrashLimiter
<1> QED
  BY <1>1, <1>2, <1>3, <1>4, <1>5, <1>6 DEF WindowNext, LimitStep, DestroyWindow, LeaveWindow, CrashWindow

LEMMA Smaller ==
    ASSUME NEW a \in Nat, NEW b \in Nat
    PROVE  Min({a, b}) = IF a <= b THEN a ELSE b
<1>1. CASE a <= b
  <2>1. \A y \in {a, b} : a =< y
    BY <1>1
  <2> QED
    BY <1>1, <2>1 DEF Min
<1>2. CASE ~(a <= b)
  <2>1. \A y \in {a, b} : b =< y
    BY <1>2
  <2> QED
    BY <1>2, <2>1 DEF Min
<1> QED
  BY <1>1, <1>2

\* A sequence is known by its length and its elements.
LEMMA SameSeq ==
    ASSUME NEW q \in Seq(Int), NEW n \in Nat, Len(q) = n, NEW d \in Int, \A i \in 1..n : q[i] = d + i
    PROVE  q = [i \in 1..n |-> d + i]
<1>1. q = [i \in 1..Len(q) |-> q[i]]
  OBVIOUS
<1> QED
  BY <1>1

\* The two parts of a full ring, one after the other.
LEMMA RingJoined ==
    ASSUME NEW ring \in [1..HistCap -> Int], NEW p \in 0..(HistCap - 1), NEW n \in Nat,
           \A i \in 1..p : ring[i] = n - p + i,
           \A i \in (p + 1)..HistCap : ring[i] = n - p - HistCap + i
    PROVE  SubSeq(ring, p + 1, HistCap) \o SubSeq(ring, 1, p) = [i \in 1..HistCap |-> n - HistCap + i]
<1>1. HistCap \in Nat /\ HistCap >= 1 /\ p \in Nat /\ p <= HistCap - 1
  BY CapType
<1> DEFINE a == SubSeq(ring, p + 1, HistCap)
           b == SubSeq(ring, 1, p)
           c == HistCap - p
<1>2. /\ a \in Seq(Int) /\ Len(a) = c
      /\ \A i \in 1..c : a[i] = ring[p + i]
  <2>1. p + 1 \in Int /\ HistCap \in Int /\ p + 1 <= HistCap /\ \A i \in (p + 1)..HistCap : ring[i] \in Int
    BY <1>1
  <2>2. /\ a \in Seq(Int)
        /\ Len(a) = (IF p + 1 <= HistCap THEN HistCap - (p + 1) + 1 ELSE 0)
        /\ \A i \in 1..(HistCap - (p + 1) + 1) : a[i] = ring[(p + 1) + i - 1]
    BY <2>1, SubSeqProperties
  <2> HIDE DEF a
  <2>3. HistCap - (p + 1) + 1 = c /\ \A i \in Int : (p + 1) + i - 1 = p + i
    BY <1>1
  <2> QED
    BY <1>1, <2>1, <2>2, <2>3
<1>3. /\ b \in Seq(Int) /\ Len(b) = p
      /\ \A i \in 1..p : b[i] = ring[i]
  <2>1. 1 \in Int /\ p \in Int /\ \A i \in 1..p : ring[i] \in Int
    BY <1>1
  <2>2. /\ b \in Seq(Int)
        /\ Len(b) = (IF 1 <= p THEN p - 1 + 1 ELSE 0)
        /\ \A i \in 1..(p - 1 + 1) : b[i] = ring[1 + i - 1]
    BY <2>1, SubSeqProperties
  <2> HIDE DEF b
  <2>3. p - 1 + 1 = p /\ \A i \in Int : 1 + i - 1 = i
    BY <1>1
  <2> QED
    BY <1>1, <2>1, <2>2, <2>3
<1> HIDE DEF a, b
<1>4. PICK q : q = a \o b
  OBVIOUS
<1>5. /\ q \in Seq(Int) /\ Len(q) = c + p
      /\ \A i \in 1..(c + p) : q[i] = IF i <= c THEN a[i] ELSE b[i - c]
  <2>1. a \in Seq(Int) /\ b \in Seq(Int)
    BY <1>2, <1>3
  <2>2. /\ a \o b \in Seq(Int)
        /\ Len(a \o b) = Len(a) + Len(b)
        /\ \A i \in 1..Len(a) + Len(b) : (a \o b)[i] = IF i <= Len(a) THEN a[i] ELSE b[i - Len(a)]
    BY ONLY <2>1, ConcatProperties
  <2>3. Len(a) = c /\ Len(b) = p
    BY <1>2, <1>3
  <2> QED
    BY ONLY <1>4, <2>2, <2>3
<1>6. c \in Nat /\ c + p = HistCap
  BY <1>1
<1>7. ASSUME NEW i \in 1..HistCap PROVE q[i] = n - HistCap + i
  <2>1. q[i] = IF i <= c THEN a[i] ELSE b[i - c]
    BY <1>5, <1>6
  <2>2. CASE i <= c
    <3>1. i \in 1..c /\ p + i \in (p + 1)..HistCap /\ n - p - HistCap + (p + i) = n - HistCap + i
      BY <1>1, <2>2
    <3>2. q[i] = ring[p + i]
      BY <1>2, <2>1, <2>2, <3>1
    <3> QED
      BY <3>1, <3>2
  <2>3. CASE ~(i <= c)
    <3>1. i - c \in 1..p /\ n - p + (i - c) = n - HistCap + i
      BY <1>1, <2>3
    <3>2. q[i] = ring[i - c]
      BY <1>3, <2>1, <2>3, <3>1
    <3> QED
      BY <3>1, <3>2
  <2> QED
    BY <2>2, <2>3
<1>8. q = [i \in 1..HistCap |-> (n - HistCap) + i]
  <2>1. PICK d : d = n - HistCap
    OBVIOUS
  <2>2. d \in Int /\ Len(q) = HistCap
    BY <1>1, <1>5, <1>6, <2>1
  <2>3. \A i \in 1..HistCap : q[i] = d + i
    BY <1>7, <2>1
  <2>4. q = [i \in 1..HistCap |-> d + i]
    BY <1>1, <1>5, <2>2, <2>3, SameSeq
  <2> QED
    BY <2>1, <2>4
<1> QED
  BY <1>4, <1>8 DEF a, b

LEMMA RingBegun ==
    ASSUME NEW ring \in [1..HistCap -> Int], NEW n \in 0..(HistCap - 1),
           \A i \in 1..n : ring[i] = n - n + i
    PROVE  SubSeq(ring, 1, n) = [i \in 1..n |-> n - n + i]
<1>1. HistCap \in Nat /\ n \in Nat /\ n <= HistCap - 1
  BY CapType
<1>2. PICK q : q = SubSeq(ring, 1, n)
  OBVIOUS
<1>3. 1 \in Int /\ n \in Int /\ \A i \in 1..n : ring[i] \in Int
  BY <1>1
<1>4. /\ q \in Seq(Int)
      /\ Len(q) = (IF 1 <= n THEN n - 1 + 1 ELSE 0)
      /\ \A i \in 1..(n - 1 + 1) : q[i] = ring[1 + i - 1]
  BY <1>2, <1>3, SubSeqProperties
<1>5. n - 1 + 1 = n /\ \A i \in Int : 1 + i - 1 = i
  BY <1>1
<1>6. PICK d : d = n - n
  OBVIOUS
<1>7. Len(q) = n /\ d \in Int /\ \A i \in 1..n : q[i] = d + i
  BY <1>1, <1>4, <1>5, <1>6
<1>8. q = [i \in 1..n |-> d + i]
  BY <1>1, <1>4, <1>7, SameSeq
<1> QED
  BY <1>2, <1>6, <1>8

LEMMA SpeedFollows == LoopInv => SpeedHonest
<1> SUFFICES ASSUME LoopInv PROVE SpeedHonest
  OBVIOUS
<1>1. PICK n, p, r, k : n = sampled.n /\ p = hist.pos /\ r = hist.ring /\ k = Min({n, HistCap})
  OBVIOUS
<1>2. n \in Nat /\ HistCap \in Nat /\ p \in 0..(HistCap - 1) /\ r \in [1..HistCap -> Int] /\ hist.full \in BOOLEAN
  BY <1>1, CapType DEF LoopInv, Sampling, Ring
<1>3. \A i \in 1..p : r[i] = n - p + i
  BY <1>1 DEF LoopInv, Ring
<1>4. CASE hist.full
  <2>1. \A i \in (p + 1)..HistCap : r[i] = n - p - HistCap + i
    BY <1>1, <1>4 DEF LoopInv, Ring
  <2>2. n >= HistCap
    BY <1>1, <1>4 DEF LoopInv, Ring
  <2>3. k = HistCap
    BY <1>1, <1>2, <2>2, Smaller
  <2>4. SubSeq(r, p + 1, HistCap) \o SubSeq(r, 1, p) = [i \in 1..HistCap |-> n - HistCap + i]
    BY <1>1, <1>2, <1>3, <2>1, RingJoined
  <2>5. History = SubSeq(r, p + 1, HistCap) \o SubSeq(r, 1, p)
    BY <1>1, <1>4 DEF History
  <2>6. History = [i \in 1..k |-> n - k + i]
    BY <2>3, <2>4, <2>5
  <2> QED
    BY <1>1, <2>6 DEF SpeedHonest, LoopInv, Sampling
<1>5. CASE ~hist.full
  <2>1. p = n
    BY <1>1, <1>5 DEF LoopInv, Ring
  <2>2. k = n
    BY <1>1, <1>2, <2>1, Smaller
  <2>3. SubSeq(r, 1, n) = [i \in 1..n |-> n - n + i]
    BY <1>1, <1>2, <1>3, <2>1, RingBegun
  <2>4. History = SubSeq(r, 1, n)
    BY <1>1, <1>5, <2>1 DEF History
  <2>5. History = [i \in 1..k |-> n - k + i]
    BY <2>2, <2>3, <2>4
  <2> QED
    BY <1>1, <2>5 DEF SpeedHonest, LoopInv, Sampling
<1> QED
  BY <1>2, <1>4, <1>5

\* Between operations the limiter tells the truth about the system and can find every
\* limit again, the speed is that of one process and the history that of the last
\* samples: whatever buttons, samples, closings and crashes there were, and however many
\* operations there may be at a time.
THEOREM LimitsTold == WindowSpec => []LimitsExact
<1>1. LimInv /\ LoopInv => LimitsExact
  BY HonestFollows, SpeedFollows DEF LimitsExact
<1> QED
  BY <1>1, LimStart, LimStep, LoopStart, LoopStep, PTL DEF WindowSpec
================================================================================
