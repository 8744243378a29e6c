--------------------------- MODULE FailureLimiter ---------------------------
(***************************************************************************)
(* rate_limit.py: what one process remembers of failed attempts.  A        *)
(* limiter's memory maps a key to the instants of its failures, oldest     *)
(* first.  No await lies within any of these, so each is one step.         *)
(***************************************************************************)
EXTENDS Integers, SequencesExt

CONSTANTS
    Limits,      \* per limiter, its max_failures and window_seconds
    MaxTracked   \* _MAX_TRACKED_KEYS

ASSUME LimiterAssumption ==
    /\ MaxTracked \in Nat \ {0}
    /\ \A l \in DOMAIN Limits : Limits[l].max \in Nat \ {0} /\ Limits[l].window \in Nat

Limiters == DOMAIN Limits

\* From the left, up to the first failure within the window.
DropExpired(l, attempts, now) ==
    LET live == {i \in DOMAIN attempts : attempts[i] > now - Limits[l].window}
    IN  IF live = {} THEN <<>> ELSE SubSeq(attempts, Min(live), Len(attempts))

\* A memory of the keys alone, and one in which key has these attempts.
Only(memory, keys) == [k \in keys |-> memory[k]]
Put(memory, key, attempts) ==
    [k \in DOMAIN memory \cup {key} |-> IF k = key THEN attempts ELSE memory[k]]

\* A variant of Blocked with a bug that a property must refute: one attempt more passes.
BlockedLate(l, memory, key, now) ==
    key \in DOMAIN memory /\ Len(DropExpired(l, memory[key], now)) > Limits[l].max

\* retry_after answers a number of seconds.
Blocked(l, memory, key, now) ==
    key \in DOMAIN memory /\ Len(DropExpired(l, memory[key], now)) >= Limits[l].max

\* _live_attempts, which every check makes: the key goes with its last live failure.
Checked(l, memory, key, now) ==
    IF key \notin DOMAIN memory THEN memory
    ELSE LET live == DropExpired(l, memory[key], now)
         IN  IF live = <<>> THEN Only(memory, DOMAIN memory \ {key})
                            ELSE [memory EXCEPT ![key] = live]

\* The keys that _evict_if_full may keep, before a new one comes in.
Kept(l, memory, now) ==
    LET live == {k \in DOMAIN memory : Last(memory[k]) > now - Limits[l].window}
        oldest == {k \in live : \A j \in live : Last(memory[k]) <= Last(memory[j])}
    IN  IF Cardinality(DOMAIN memory) < MaxTracked THEN {DOMAIN memory}
        ELSE IF Cardinality(live) < MaxTracked THEN {live}
        ELSE {live \ {k} : k \in oldest}

\* record_failure, as the set of memories it may leave: min picks one of equals.
RecordFailure(l, memory, key, now) ==
    IF key \in DOMAIN memory
    THEN {[memory EXCEPT ![key] = Append(DropExpired(l, @, now), now)]}
    ELSE {Put(Only(memory, keys), key, <<now>>) : keys \in Kept(l, memory, now)}

Clear(memory, key) == Only(memory, DOMAIN memory \ {key})
=============================================================================
