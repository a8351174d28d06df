----------------------------- MODULE Freshness -----------------------------
(***************************************************************************)
(* Which registrations a daily run of the recent job checks                *)
(* (internal/collector/freshness.go).                                      *)
(*                                                                         *)
(* allocate gives each registration a frequency, from the rate at which it *)
(* is estimated to change, so that the local copies are as fresh as the    *)
(* budget of checks allows; refreshOrder takes, each day, the              *)
(* registrations that are the most overdue for their frequency.            *)
(*                                                                         *)
(* Frequencies are reals in the code.  Here they are on a grid: k stands   *)
(* for k / Steps checks a day.  The slope of the freshness                 *)
(* (freshnessSlope) is a table; nothing depends on its values but that it  *)
(* falls with the frequency, by more than its unit: there is always a mu,  *)
(* a real in the code, between the slopes of two neighbours of the grid.   *)
(* Bisections end at neighbours of the grid instead of after fifty         *)
(* halvings.  Estimates (changeRate) are inputs: they may be any, and so   *)
(* may the ages that earlier estimates, failures and outages have left.    *)
(***************************************************************************)
EXTENDS Integers, FiniteSets, SequencesExt

CONSTANTS
    Registrations, \* registration numbers, in the order of RefreshStats
    Rates,         \* estimated rates of change, in increasing order
    Steps,         \* frequencies on the grid up to the limit, once a day
    Slope,         \* Slope[rate][k]: freshness gained per check at frequency k;
                   \* at 0 its limit, the inverse of the rate
    Budget,        \* refreshBudget: checks of a run
    StartAges,     \* the ages a run may find to begin with
    Horizon        \* bound on ages: an older copy counts as this old

ASSUME FreshnessAssumption ==
    /\ Registrations \subseteq Nat /\ IsFiniteSet(Registrations) /\ Rates \subseteq Nat
    /\ Steps \in Nat \ {0} /\ Budget \in Nat \ {0} /\ Horizon \in Nat \ {0}
    /\ StartAges \subseteq 0..Horizon
    /\ Slope \in [Rates -> [0..Steps -> Nat]]
    /\ \A rate \in Rates, k \in 1..Steps : Slope[rate][k] + 1 < Slope[rate][k - 1]
    /\ \A rate, faster \in Rates : rate < faster => Slope[faster][0] < Slope[rate][0]

VARIABLES
    rate,    \* rate[r]: the estimated change rate of r
    freq,    \* freq[r]: its frequency, allocate of the rates
    failing, \* the registrations whose checks fail
    age      \* age[r]: at the next run, the days since r was synchronized

vars == <<rate, freq, failing, age>>

-----------------------------------------------------------------------------
(* allocate *)

\* Halves lo..hi, where Above holds of lo and not of hi, down to two neighbours.
Bisect(Above(_), lo, hi) ==
    LET halve[b \in [lo : lo..hi, hi : lo..hi]] ==
            LET mid == (b.lo + b.hi) \div 2 IN
            IF b.hi - b.lo <= 1 THEN b
            ELSE IF Above(mid) THEN halve[[lo |-> mid, hi |-> b.hi]]
            ELSE halve[[lo |-> b.lo, hi |-> mid]]
    IN halve[[lo |-> lo, hi |-> hi]]

\* The frequency at which the slope falls to mu: none for a registration that
\* changes too often to be kept fresh, the limit for one whose slope never does.
frequency(lambda, mu) ==
    IF mu >= Slope[lambda][0] THEN 0
    ELSE IF Slope[lambda][Steps] >= mu THEN Steps
    ELSE Bisect(LAMBDA f : Slope[lambda][f] > mu, 0, Steps).lo

Frequencies(rates, mu) == [r \in Registrations |-> frequency(rates[r], mu)]

Slowest(rates) == CHOOSE lambda \in Range(rates) : \A l \in Range(rates) : lambda <= l

\* Mutant of allocate: the last mu tried is the one above the budget.
allocateOver(rates) ==
    IF Budget >= Cardinality(Registrations) THEN [r \in Registrations |-> Steps]
    ELSE LET Over(mu) == SumFunction(Frequencies(rates, mu)) > Budget * Steps
         IN Frequencies(rates, Bisect(Over, 0, Slope[Slowest(rates)][0]).lo)

\* One mu for all of them, found by bisection between 0 and the inverse of the
\* lowest rate, and at last the one whose total is within the budget.
allocate(rates) ==
    IF Budget >= Cardinality(Registrations) THEN [r \in Registrations |-> Steps]
    ELSE LET Over(mu) == SumFunction(Frequencies(rates, mu)) > Budget * Steps
         IN Frequencies(rates, Bisect(Over, 0, Slope[Slowest(rates)][0]).hi)

-----------------------------------------------------------------------------
(* The daily run *)

Candidates == {r \in Registrations : freq[r] > 0}

priority(r) == age[r] * freq[r]

\* Mutant of Before: the registrations to check most often come first.
BeforeByFrequency(r, s) == freq[r] > freq[s] \/ (freq[r] = freq[s] /\ r < s)

\* Mutant of Before: the comparison is the wrong way round.
BeforeLeastOverdue(r, s) == priority(r) < priority(s) \/ (priority(r) = priority(s) /\ r < s)

\* The order of the run: by falling priority, and as they were read where it is
\* the same (the sort is stable).
Before(r, s) == priority(r) > priority(s) \/ (priority(r) = priority(s) /\ r < s)

\* The first n candidates in this order.
First(n) == {r \in Candidates : Cardinality({s \in Candidates : Before(s, r)}) < n}

\* How many refreshOrder returns.
Order == IF Cardinality(Candidates) < Budget THEN Cardinality(Candidates) ELSE Budget

\* The first n of the order are checked; a check that fails records nothing.
Check(n) ==
    LET checked == First(n) \ failing IN
    age' = [r \in Registrations |->
               IF r \in checked THEN 1
               ELSE IF age[r] < Horizon THEN age[r] + 1 ELSE Horizon]

Init ==
    /\ rate \in [Registrations -> Rates]
    /\ freq = allocate(rate)
    /\ failing \in SUBSET Registrations
    /\ age \in [Registrations -> StartAges]

Run == Check(Order) /\ UNCHANGED <<rate, freq, failing>>

\* BSMI limits the rate, the process is stopped, or the day's run is skipped.
CutShort ==
    /\ \E n \in 0..Order - 1 : Check(n)
    /\ UNCHANGED <<rate, freq, failing>>

\* A visit to its page refreshes a registration (server.go:231-232).
Refreshed(r) ==
    /\ age[r] > 1
    /\ age' = [age EXCEPT ![r] = 0]
    /\ UNCHANGED <<rate, freq, failing>>

Next == Run \/ CutShort \/ \E r \in Registrations : Refreshed(r)

\* BSMI does not turn away every run for ever.
Fairness == WF_vars(Run)

Spec == Init /\ [][Next]_vars /\ Fairness
-----------------------------------------------------------------------------
\* The frequencies with a given total.
WithTotal == [total \in 0..Budget * Steps |->
                 {f \in [Registrations -> 0..Steps] : SumFunction(f) = total}]

\* The freshness that frequencies f are worth.
Gain == [l \in Rates |-> [k \in 0..Steps |-> SumFunction([i \in 1..k |-> Slope[l][i]])]]
Worth(f) == SumFunction([r \in Registrations |-> Gain[rate[r]][f[r]]])

\* "allocate maximizes the freshness subject to a total equal to the budget" and
\* the limit (freshness.go:63-65), on the grid: the total is within the budget, less of it
\* is left than one step per registration unless all are at the limit, and no
\* other frequencies of the same total are worth more.  What the two nested
\* bisections return is compared with all the frequencies there are.
AllocationIsOptimal ==
    LET spent == SumFunction(freq)
        worth == Worth(freq) IN
    /\ freq \in [Registrations -> 0..Steps] /\ spent <= Budget * Steps
    /\ \/ Budget * Steps < spent + Cardinality(Registrations)
       \/ \A r \in Registrations : freq[r] = Steps
    /\ \A other \in WithTotal[spent] : Worth(other) <= worth

\* Whether no copy that is to be kept fresh is older than twice its interval.
WithinTwiceTheInterval ==
    \A r \in Candidates \ failing : priority(r) <= 2 * Steps

\* "Each registration is due after 1/f days, so the most overdue relative to its
\* optimal frequency comes first" (freshness.go:96-99): whatever ages outages,
\* rate limits and earlier estimates have left, once runs are complete and checks
\* succeed the greedy order brings every registration back to within twice its
\* interval, for good, although the run of a day may be full.
SettlesWithinTwiceTheInterval ==
    [](Candidates \cap failing = {}) /\ <>[][~CutShort]_vars
        => <>[]WithinTwiceTheInterval

\* Registrations whose checks always fail keep their old synchronization and stay
\* at the front of every run (jobs.go:64-71, freshness.go:133).  They starve nobody
\* as long as there are fewer of them than the budget: once runs are complete,
\* every other registration that has a frequency is synchronized again and again.
FailuresStarveNobody ==
    [](Cardinality(Candidates \cap failing) < Budget) /\ <>[][~CutShort]_vars
        => \A r \in Registrations : []<>(r \in Candidates \ failing => age[r] <= 1)
=============================================================================
