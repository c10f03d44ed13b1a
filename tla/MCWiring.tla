------------------------------ MODULE MCWiring ------------------------------
(***************************************************************************)
(* Instances of Wiring for TLC.  Each behaviour is about one part of the   *)
(* wiring: the parts meet only in the steps of init and uninstall.  Doctor *)
(* may be asked at any moment.                                             *)
(***************************************************************************)
EXTENDS Doctor, FiniteSets

EachPart ==
  {{"hooks"}, {"mcp"}, {"line"}, {"registry"}, {"AGENTS", "v", "text", "memory"},
   {"rules", "v", "text"}, {"rules", "v", "memory"}, {"rules", "v", "w"}}

\* Both builds or the later one are there; one is as its sources are, or neither.
Checkout(script, source) == [script |-> script, sources |-> {1, source}, output |-> {script}, version |-> "1"]
Machines ==
  {[stands |-> stands, version |-> "1", transcript |-> transcript,
    checkout |-> [b1 |-> Checkout(4, source), b2 |-> Checkout(5, 1)]] :
      stands \in {{"b1"}, {"b2"}, {"b1", "b2"}}, transcript \in BOOLEAN, source \in {6, 7}}

OnlyMirror == {{"AGENTS", "v", "text", "memory"}}

-----------------------------------------------------------------------------
(* The counts doctor goes by, against their meaning. *)

SeqsUpTo(S, n) == UNION {[1..k -> S] : k \in 0..n}
Run(read, status, patched) == [read |-> read, status |-> status, patched |-> patched]
EmptyRun == Run(1, "ok", FALSE)

\* A run that read nothing neither counts nor ends the streak; any other that recorded
\* something, or failed, ends it.
ASSUME StreakIsWhatItSays ==
  \A runs \in SeqsUpTo({EmptyRun, Run(0, "ok", FALSE), Run(1, "ok", TRUE), Run(1, "error", FALSE)}, 4) :
    emptyRunStreak(runs) =
      Cardinality({i \in DOMAIN runs : runs[i] = EmptyRun
                                       /\ \A j \in 1..i : runs[j].read > 0 => runs[j] = EmptyRun})

\* The share of the samples that are at most the percentile is at least its share.
ASSUME PercentileIsOne ==
  \A samples \in {s \in SeqsUpTo(1..3, 5) : \A i \in DOMAIN s : i = 1 \/ s[i - 1] <= s[i]} :
    samples # <<>> => \A share \in {50, 95} :
      100 * Cardinality({i \in DOMAIN samples : samples[i] <= latencyStats(samples, share)})
        >= share * Len(samples)

\* A model local_only bars fails the check, and no other that has what it needs does.
Specs == [known : {TRUE}, local : BOOLEAN, cloud : {"unsaid", "yes", "no"}, cli : BOOLEAN, onPath : {TRUE},
          wantsKey : BOOLEAN, hasKey : {TRUE}]
ASSUME BarredFails ==
  \A cheap \in Specs, high \in Specs, localOnly \in BOOLEAN :
    LET models == [tiers |-> [cheap |-> cheap, high |-> high], routing |-> [learn |-> "high"]]
    IN worstStatus(providerChecks(models, localOnly)) = "fail"
         <=> localOnly /\ (\E spec \in {cheap, high} : spec.cloud = "yes" \/ (spec.cloud = "unsaid" /\ ~ spec.local))

=============================================================================
