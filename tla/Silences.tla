------------------------------ MODULE Silences ------------------------------
(***************************************************************************)
(* silence.Store (internal/silence/silence.go): manual silences and the    *)
(* deploy windows that hold back ongoing problems.                         *)
(*                                                                         *)
(* A matcher is a function from the fields it sets to what their pattern   *)
(* matches.  A glob is the set of names it matches; "*" is the set of all  *)
(* names with "" among them, since only "*" matches an empty field.        *)
(* Deploy windows are kept per container and per compose project;          *)
(* windows[k] = 0 is Go's zero time, no window.                            *)
(***************************************************************************)
EXTENDS Integers, Clock

CONSTANTS
    SilenceIds, Matchers, Durations,
    WindowKeys       \* pairs <<"container", name>> and <<"project", name>>

ASSUME SilencesAssumption == Durations \subseteq Nat

VARIABLES silences, windows
store == <<silences, windows>>

StoreInit == silences = {} /\ windows = [k \in WindowKeys |-> 0]

Valid(m) == DOMAIN m # {}

MatchesField(m, f, s) ==
    IF f = "target" THEN s.container \in m[f] \/ s.resource \in m[f]
    ELSE s[f] \in m[f]

Matches(m, s) == Valid(m) /\ \A f \in DOMAIN m : MatchesField(m, f, s)

-----------------------------------------------------------------------------
(* pruneLocked: what has run out at the time of the call.                  *)
Live == {x \in silences : now < x.until}
Until(k) == IF now < windows[k] THEN windows[k] ELSE 0
PruneStore == silences' = Live /\ windows' = [k \in WindowKeys |-> Until(k)]

(* Silenced(s): one-off alerts look only at the manual silences.           *)
InWindow(scope, name) == name # "" /\ Until(<<scope, name>>) # 0

Silenced(s) ==
    \/ /\ ~s.oneOff
       /\ InWindow("container", s.container) \/ InWindow("project", s.project)
    \/ \E x \in Live : Matches(x.matcher, s)

-----------------------------------------------------------------------------
(* Add: ids are random, so a new silence has one that is not in use.       *)
Add(m, d) ==
    /\ Valid(m) /\ d > 0
    /\ \E id \in SilenceIds \ {x.id : x \in silences} :
          silences' = silences \cup {[id |-> id, matcher |-> m, until |-> now + d]}
    /\ UNCHANGED windows

Remove(id) ==
    /\ \E x \in silences : x.id = id
    /\ silences' = {x \in silences : x.id # id}
    /\ UNCHANGED windows

(* Deploy: a window can only grow.                                         *)
Deployed(container, project, until) ==
    [k \in WindowKeys |->
        IF /\ k \in {<<"container", container>>, <<"project", project>>}
           /\ k[2] # "" /\ until > windows[k]
        THEN until ELSE windows[k]]

Deploy(container, project, until) ==
    windows' = Deployed(container, project, until) /\ UNCHANGED silences

(* SaveState lists what is live.                                           *)
StoreSaved == [silences |-> Live, windows |-> [k \in WindowKeys |-> Until(k)]]

(* LoadState adds to what the store holds (the API is served before        *)
(* restore runs) and drops what has run out since.                         *)
StoreLoad(s) ==
    /\ silences' = {x \in silences \cup {y \in s.silences : Valid(y.matcher)} :
                       now < x.until}
    /\ windows' = [k \in WindowKeys |->
                      IF now < s.windows[k] /\ Until(k) < s.windows[k]
                      THEN s.windows[k] ELSE Until(k)]
=============================================================================
