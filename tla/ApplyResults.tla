---------------------------- MODULE ApplyResults ----------------------------
(***************************************************************************)
(* The apply-result store of the data plane (reefy/apply_results.py): one  *)
(* record per desired-state request, kept in memory and written through to *)
(* one file per request under APPLY_RESULTS_DIR, with a bounded history of *)
(* terminal records.                                                       *)
(*                                                                         *)
(* A store is a value; an operation maps a store to the set of stores it   *)
(* may leave, because a write or an unlink may fail and the code goes on   *)
(* (ApplyResultStore._write returns False, _prune swallows OSError).       *)
(* Identifiers, errors and warnings carry no structure here: a request id  *)
(* is a member of Ids, an error is part of its status, and whether there   *)
(* were warnings is the difference between the two succeeded statuses.     *)
(***************************************************************************)
EXTENDS Naturals, FiniteSets

CONSTANTS
  Ids,            \* request ids (uuid4: never reused)
  TerminalLimit,  \* terminal_limit, 32 in the code
  StoreFaults     \* which file operations may fail

ASSUME IdsAssumption == IsFiniteSet(Ids)
ASSUME LimitAssumption == TerminalLimit \in Nat \ {0}
ASSUME StoreFaultsAssumption == StoreFaults \subseteq {"create", "write", "unlink"}

SuccessStatuses == {"succeeded", "succeeded_with_warnings"}
TerminalStatuses == SuccessStatuses \cup {"failed", "superseded"}
LiveStatuses == {"queued", "running"}
Statuses == TerminalStatuses \cup LiveStatuses

\* A record, and the place of a request that has none ("absent").
Record == [status : Statuses \cup {"absent"}, applied : BOOLEAN, at : Nat]
NoRecord == [status |-> "absent", applied |-> FALSE, at |-> 0]

\* mem is self._results, disk the directory, clock the last time.time() read.
Store == [mem : [Ids -> Record], disk : [Ids -> Record], clock : Nat]
EmptyStore == [mem |-> [r \in Ids |-> NoRecord],
               disk |-> [r \in Ids |-> NoRecord],
               clock |-> 0]

Terminal(m) == {r \in Ids : m[r].status \in TerminalStatuses}
Live(m) == {r \in Ids : m[r].status \in LiveStatuses}

Drop(m, S) == [r \in Ids |-> IF r \in S THEN NoRecord ELSE m[r]]

\* _prune: every terminal record but the TerminalLimit newest by updated_at.
Expired(m) ==
  {r \in Terminal(m) :
     Cardinality({q \in Terminal(m) : m[q].at > m[r].at}) >= TerminalLimit}

\* What a failing write or unlink leaves: the writes that reach the disk, the
\* files that stay behind.
Written(S) == IF "write" \in StoreFaults THEN SUBSET S ELSE {S}
LeftBehind(S) == IF "unlink" \in StoreFaults THEN SUBSET S ELSE {{}}

\* create: refused when the first write fails; the memory entry is popped.
CreateMayFail == "create" \in StoreFaults
Created(s, r) ==
  LET rec == [status |-> "queued", applied |-> FALSE, at |-> s.clock + 1]
  IN  [mem |-> [s.mem EXCEPT ![r] = rec],
       disk |-> [s.disk EXCEPT ![r] = rec],
       clock |-> s.clock + 1]

\* Some records of m replaced by those of upd, a function on a set of ids.
Overwrite(m, upd) ==
  [r \in Ids |-> IF r \in DOMAIN upd THEN upd[r] ELSE m[r]]
OnlyOn(S, upd) == [r \in DOMAIN upd \cap S |-> upd[r]]

\* The stores left by writing the records of upd and, when one of them is
\* terminal, pruning.
Stored(s, upd, ticks) ==
  LET mem == Overwrite(s.mem, upd)
      old == IF \E r \in DOMAIN upd : upd[r].status \in TerminalStatuses
               THEN Expired(mem) ELSE {}
  IN  {[mem |-> Drop(mem, old),
        disk |-> Drop(Overwrite(s.disk, OnlyOn(w, upd)), old \ left),
        clock |-> s.clock + ticks] :
          w \in Written(DOMAIN upd), left \in LeftBehind(old)}

\* update: an unknown id is left alone; memory changes even when the write fails.
Update(s, r, status, applied) ==
  IF s.mem[r].status = "absent" THEN {s}
  ELSE Stored(s,
              [x \in {r} |-> [status |-> status, applied |-> applied,
                              at |-> s.clock + 1]],
              1)

\* The orders in which fail_interrupted may visit a set of records.
Orders(S) ==
  {f \in [S -> 1 .. Cardinality(S)] : \A x, y \in S : f[x] = f[y] => x = y}

\* _load after a restart, then fail_interrupted on what was not terminal.
Reloaded(s) ==
  LET live == Live(s.disk)
      loaded == [s EXCEPT !.mem = s.disk]
      upd(f) == [r \in live |-> [status |-> "failed",
                                 applied |-> s.disk[r].applied,
                                 at |-> s.clock + f[r]]]
  IN  UNION {Stored(loaded, upd(f), Cardinality(live)) : f \in Orders(live)}
=============================================================================
