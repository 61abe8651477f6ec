----------------------------- MODULE DnsFallback -----------------------------
(***************************************************************************)
(* How a new database connection gets an address while the local DNS is    *)
(* unreliable: DnsResolver in db/dns_fallback.py, called by the connection *)
(* creator in db/session.py.                                               *)
(*                                                                         *)
(* An address is known by its age, the ticks since some resolver vouched   *)
(* for it.  The monotonic and the wall clock are taken to advance alike.   *)
(***************************************************************************)
EXTENDS Integers

CONSTANTS
    Host,           \* host names the process resolves (one in a deployment)
    Ttl,            \* _CACHE_TTL_SECONDS, in ticks
    MaxAge,         \* bound: ages are counted up to here
    Absent,         \* no entry
    Faults          \* {"disk"} if the cache file may refuse writes

ASSUME TtlAssumption == Ttl \in Nat /\ MaxAge \in Nat /\ MaxAge > Ttl
ASSUME FaultsAssumption == Faults \subseteq {"disk"}

Age == 0..MaxAge
Entry == [left : -1..Ttl, age : Age]
ASSUME AbsentAssumption == Absent \notin Entry \cup Age

Source == {"none", "system", "cache", "doh", "raised"}
Outcome == [host : Host \cup {Absent}, from : Source, age : Age, loading : BOOLEAN]
Nothing == [host |-> Absent, from |-> "none", age |-> 0, loading |-> FALSE]

VARIABLES
    memory,     \* the resolver's entries: ticks to expires_at (-1: past), age
    loaded,     \* whether this process has read the cache file
    file,       \* the cache file: one expires_at for all the addresses in it
    vouched,    \* history: ticks since a resolver gave this process an address
    outcome     \* history: what the last resolve of this tick came to

vars == <<memory, loaded, file, vouched, outcome>>

Init ==
    /\ memory = [h \in Host |-> Absent]
    /\ loaded = FALSE
    /\ file = [left |-> -1, ages |-> [h \in Host |-> Absent]]
    /\ vouched = [h \in Host |-> Absent]
    /\ outcome = Nothing

-----------------------------------------------------------------------------
\* Mutant: the file is written and never read.
MustLoadNever(h) == FALSE

\* _cached_ip reads the file the first time it has no entry for a host.
MustLoad(h) == memory[h] = Absent /\ ~loaded

\* Mutant: the expiry is taken over with a grace of one tick.
AfterLoadRenewed ==
    [h \in Host |-> IF file.ages[h] = Absent THEN memory[h]
                    ELSE [left |-> Ttl + 1, age |-> file.ages[h]]]

\* _load_cache: all addresses of the file get what is left of its one expiry,
\* at least 0: an outdated one has expired at the next look.
AfterLoad ==
    [h \in Host |-> IF file.ages[h] = Absent THEN memory[h]
                    ELSE [left |-> file.left, age |-> file.ages[h]]]

\* Mutant: an expired entry still counts.
HitExpired(h) ==
    IF MustLoad(h) THEN file.ages[h] # Absent ELSE memory[h] # Absent

\* The entry is compared with a clock that was read before the file was, so
\* what has just been loaded never counts as expired.
Hit(h) ==
    IF MustLoad(h) THEN file.ages[h] # Absent
    ELSE memory[h] # Absent /\ memory[h].left >= 0

\* What _cached_ip leaves in memory: an expired entry is dropped.
Looked(h) ==
    IF MustLoad(h) THEN AfterLoad
    ELSE IF Hit(h) THEN memory ELSE [memory EXCEPT ![h] = Absent]

\* _remember, and _persist behind it, on top of the entries m.
Remember(h, m) ==
    /\ memory' = [m EXCEPT ![h] = [left |-> Ttl, age |-> 0]]
    /\ vouched' = [vouched EXCEPT ![h] = 0]
    /\ \/ file' = [left |-> Ttl,
                   ages |-> [x \in Host |-> IF x = h THEN 0
                                            ELSE IF m[x] = Absent THEN Absent
                                            ELSE m[x].age]]
       \/ "disk" \in Faults /\ UNCHANGED file

Report(h, source, age, loading) ==
    outcome' = [host |-> h, from |-> source, age |-> age, loading |-> loading]

-----------------------------------------------------------------------------
\* resolve, first: the system resolver answers.
ResolveBySystem(h) ==
    /\ Remember(h, memory)
    /\ Report(h, "system", 0, FALSE)
    /\ UNCHANGED loaded

\* It fails, and the last known good address is used.
ResolveFromCache(h) ==
    /\ Hit(h)
    /\ memory' = Looked(h)
    /\ loaded' = (loaded \/ MustLoad(h))
    /\ Report(h, "cache", Looked(h)[h].age, MustLoad(h))
    /\ UNCHANGED <<file, vouched>>

\* There is none, and DNS over HTTPS answers ...
ResolveByDoh(h) ==
    /\ ~Hit(h)
    /\ loaded' = (loaded \/ MustLoad(h))
    /\ Remember(h, Looked(h))
    /\ Report(h, "doh", 0, FALSE)

\* ... or fails too: an OSError, no connection.
ResolveFails(h) ==
    /\ ~Hit(h)
    /\ memory' = Looked(h)
    /\ loaded' = (loaded \/ MustLoad(h))
    /\ Report(h, "raised", 0, FALSE)
    /\ UNCHANGED <<file, vouched>>

\* The process restarts: only the file survives.
Restart ==
    /\ memory' = [h \in Host |-> Absent]
    /\ loaded' = FALSE
    /\ vouched' = [h \in Host |-> Absent]
    /\ outcome' = Nothing
    /\ UNCHANGED file

Older(age) == IF age < MaxAge THEN age + 1 ELSE age
AllOlder(ages) ==
    [h \in Host |-> IF ages[h] = Absent THEN Absent ELSE Older(ages[h])]
Sooner(left) == IF left < 0 THEN left ELSE left - 1

Tick ==
    /\ memory' = [h \in Host |-> IF memory[h] = Absent THEN Absent
                                 ELSE [left |-> Sooner(memory[h].left),
                                       age |-> Older(memory[h].age)]]
    /\ file' = [left |-> Sooner(file.left), ages |-> AllOlder(file.ages)]
    /\ vouched' = AllOlder(vouched)
    /\ outcome' = Nothing
    /\ UNCHANGED loaded

Resolve(h) ==
    ResolveBySystem(h) \/ ResolveFromCache(h) \/ ResolveByDoh(h) \/ ResolveFails(h)

Next == (\E h \in Host : Resolve(h)) \/ Restart \/ Tick

Spec == Init /\ [][Next]_vars

-----------------------------------------------------------------------------
TypeOK ==
    /\ memory \in [Host -> Entry \cup {Absent}]
    /\ loaded \in BOOLEAN
    /\ file \in [left : -1..Ttl, ages : [Host -> Age \cup {Absent}]]
    /\ vouched \in [Host -> Age \cup {Absent}]
    /\ outcome \in Outcome

Recent(age) == age # Absent /\ age <= Ttl

\* With one host, a temporary outage never escalates while a good address is known:
\* a connection is refused an address only if within the TTL no resolver gave one to
\* this process and, as far as the file tells, none to an earlier one, whatever
\* restarts and failed writes came between.  (Of several hosts, one's load can put
\* an older address in the place of another's whose write failed,
\* dns_fallback.py:168-170, and its write can drop those that were not loaded.)
OutageTolerated ==
    outcome.from = "raised" =>
        ~Recent(vouched[outcome.host]) /\ ~Recent(file.ages[outcome.host])

\* With one host, an address that has outlived its TTL is used once per
\* process at most: by the very look that loads the file.  ("Cached addresses live
\* for 10 minutes", dns_fallback.py:49, but for that look.)
StaleOnlyWhileLoading ==
    outcome.from = "cache" /\ outcome.age > Ttl => outcome.loading

=============================================================================
