------------------------------ MODULE TestRun ------------------------------
(***************************************************************************)
(* A run of do_testimage on QEMU: meta/lib/oeqa/oetest.py, the decorators  *)
(* of utils/decorators.py and QemuTarget of targetcontrol.py.  Tests lie   *)
(* in suites, one for each module of TEST_SUITES; skipUnlessPassed gives a *)
(* test the bare name of another, and the suites are sorted so that the    *)
(* other comes first.  SIGTERM may come and QEMU may go at any time.       *)
(***************************************************************************)
EXTENDS Naturals, Sequences, FiniteSets, SequencesExt

CONSTANTS Suites,           \* a sequence of suites, each a sequence of the names of its tests
          Decorations,      \* maps from tests to the names in their decorators, outermost first
          Selections        \* sets of tests that a tag expression leaves

Tests == UNION {{<<i, j>> : j \in DOMAIN Suites[i]} : i \in DOMAIN Suites}
NameOf(t) == Suites[t[1]][t[2]]

ASSUME SuitesAssumption ==
    /\ Suites \in Seq(Range(Suites)) /\ \A i \in DOMAIN Suites : Suites[i] \in Seq(Range(Suites[i]))
    /\ IsFiniteSet(Tests) /\ Decorations \subseteq [Tests -> Seq({NameOf(t) : t \in Tests})]
    /\ Selections \subseteq SUBSET Tests

VARIABLES needs, selected,  \* the decorators, the tests left by tags
          testPhase, testStep,
          testsLeft,        \* the suite in its order, the test that runs first
          moduleRun,        \* the suite whose setUpModule was called last
          unset,            \* the tests whose setUpModule or setUpClass raised something
          passed, failed, skipped,  \* failed: result.failures and result.errors
          sigterm,
          guest             \* is QEMU running
caseVars == <<needs, selected, testPhase, testStep, testsLeft, moduleRun, unset, passed, failed,
              skipped, sigterm, guest>>
Results == <<passed, failed, skipped>>

CaseTypeOK ==
    /\ needs \in [Tests -> Seq({NameOf(t) : t \in Tests})] /\ selected \subseteq Tests
    /\ testPhase \in {"load", "boot", "run", "over"}
    /\ testStep \in {"next", "call", "body", "teardown"} /\ testsLeft \in Seq(selected)
    /\ moduleRun \in {0} \cup DOMAIN Suites /\ unset \subseteq Tests
    /\ passed \subseteq selected /\ failed \subseteq selected /\ skipped \subseteq selected
    /\ sigterm \in BOOLEAN /\ guest \in BOOLEAN

CaseInit ==
    /\ needs \in Decorations /\ selected \in Selections
    /\ testPhase = "load" /\ testStep = "next" /\ testsLeft = <<>> /\ moduleRun = 0
    /\ unset = {} /\ passed = {} /\ failed = {} /\ skipped = {}
    /\ sigterm = FALSE /\ guest = FALSE

-----------------------------------------------------------------------------
(* functools.wraps hands _depends_on of an inner decorator on, and the     *)
(* outer one sets it anew.                                                 *)
DependsOn(t) == IF needs[t] = <<>> THEN {} ELSE {needs[t][1]}

(* The first suite with a test of that name; none if no test that is left  *)
(* has it.                                                                 *)
Provider(n) ==
    LET has == {t[1] : t \in {u \in selected : NameOf(u) = n}} IN
    IF has = {} THEN {} ELSE {Min(has)}

SuiteDependencies(i) ==
    (UNION {Provider(n) : n \in UNION {DependsOn(t) : t \in {u \in selected : u[1] = i}}}) \ {i}

(* A suite is one deeper than the deepest on which it depends: in a circle *)
(* there is no such depth, otherwise there is one.                         *)
Depths ==
    {h \in [DOMAIN Suites -> 0..Len(Suites)] :
        \A i \in DOMAIN Suites :
            /\ \A d \in SuiteDependencies(i) : h[d] < h[i]
            /\ h[i] = 0 \/ \E d \in SuiteDependencies(i) : h[i] = h[d] + 1}
Depth == CHOOSE h \in Depths : TRUE
Circular == Depths = {}

(* mistake: the order of TEST_SUITES.                                      *)
RunsBeforeAsListed(t, u) == t[1] < u[1] \/ (t[1] = u[1] /\ t[2] < u[2])

RunsBefore(t, u) ==
    \/ Depth[t[1]] < Depth[u[1]]
    \/ Depth[t[1]] = Depth[u[1]] /\ (t[1] < u[1] \/ (t[1] = u[1] /\ t[2] < u[2]))

Orders ==
    {order \in [1..Cardinality(selected) -> selected] :
        /\ Range(order) = selected
        /\ \A i, j \in DOMAIN order : i < j => RunsBefore(order[i], order[j])}

(* set_suite_depth does not return from a circle: "Loading tests failed".  *)
LoadTests ==
    /\ testPhase = "load"
    /\ IF Circular THEN testPhase' = "over" /\ UNCHANGED testsLeft
       ELSE testPhase' = "boot" /\ testsLeft' \in Orders
    /\ UNCHANGED <<needs, selected, testStep, moduleRun, unset, Results, sigterm, guest>>

(* If QEMU does not start, target.start stops it and raises FuncFailed.    *)
StartTarget ==
    /\ testPhase = "boot"
    /\ \/ testPhase' = "run" /\ guest' = TRUE
       \/ testPhase' = "over" /\ guest' = FALSE
    /\ UNCHANGED <<needs, selected, testStep, testsLeft, moduleRun, unset, Results, sigterm>>

-----------------------------------------------------------------------------
Now == testsLeft[1]
Running == testPhase = "run" /\ testsLeft # <<>>

(* skipModule raises SkipTest, or an error if the test was required:       *)
(* either way none of the module's tests runs, and the lists of results    *)
(* have the module's name and not theirs.                                  *)
SetUpModule ==
    /\ Running /\ testStep = "next" /\ moduleRun # Now[1]
    /\ moduleRun' = Now[1]
    /\ unset' \in {unset, unset \cup {t \in Tests : t[1] = Now[1]}}
    /\ UNCHANGED <<needs, selected, testPhase, testStep, testsLeft, Results, sigterm, guest>>

PassOver ==
    /\ Running /\ testStep = "next" /\ moduleRun = Now[1] /\ Now \in unset
    /\ testsLeft' = Tail(testsLeft)
    /\ UNCHANGED <<needs, selected, testPhase, testStep, moduleRun, unset, Results, sigterm, guest>>

(* setUpClass may raise: then none of the class's tests runs, and again    *)
(* the lists have the class's name and not theirs.  A suite may be divided *)
(* into classes in any way: each test stands for a class of its own.       *)
SetUpClassRaises ==
    /\ Running /\ testStep = "next" /\ moduleRun = Now[1] /\ Now \notin unset
    /\ unset' = unset \cup {Now}
    /\ UNCHANGED <<needs, selected, testPhase, testStep, testsLeft, moduleRun, Results, sigterm, guest>>

(* It may fail at the packages or in setUpLocal too.  Then there is no     *)
(* tearDown.                                                               *)
SetUp ==
    /\ Running /\ testStep = "next" /\ moduleRun = Now[1] /\ Now \notin unset
    /\ \/ ~sigterm /\ guest /\ testStep' = "call" /\ UNCHANGED <<failed, testsLeft>>
       \/ failed' = failed \cup {Now} /\ testsLeft' = Tail(testsLeft) /\ UNCHANGED testStep
    /\ UNCHANGED <<needs, selected, testPhase, moduleRun, unset, passed, skipped, sigterm, guest>>

(* A name is looked for in the lists without its module.                   *)
NotPassed(n) == \E t \in failed \cup skipped : NameOf(t) = n

SkipUnlessPassed ==
    /\ Running /\ testStep = "call"
    /\ IF \E n \in Range(needs[Now]) : NotPassed(n)
       THEN skipped' = skipped \cup {Now} /\ testStep' = "teardown"
       ELSE testStep' = "body" /\ UNCHANGED skipped
    /\ UNCHANGED <<needs, selected, testPhase, testsLeft, moduleRun, unset, passed, failed, sigterm,
                   guest>>

(* The test itself: it passes, fails or asks to be skipped.                *)
TestBody ==
    /\ Running /\ testStep = "body" /\ testStep' = "teardown"
    /\ \/ UNCHANGED <<failed, skipped>>
       \/ failed' = failed \cup {Now} /\ UNCHANGED skipped
       \/ skipped' = skipped \cup {Now} /\ UNCHANGED failed
    /\ UNCHANGED <<needs, selected, testPhase, testsLeft, moduleRun, unset, passed, sigterm, guest>>

(* The handler of timeout_handler restarts the target, which may not come  *)
(* back, and raises TimeOut.                                               *)
TestTimesOut ==
    /\ Running /\ testStep = "body" /\ testStep' = "teardown"
    /\ failed' = failed \cup {Now} /\ guest' \in BOOLEAN
    /\ UNCHANGED <<needs, selected, testPhase, testsLeft, moduleRun, unset, passed, skipped, sigterm>>

TearDown ==
    /\ Running /\ testStep = "teardown" /\ testStep' = "next" /\ testsLeft' = Tail(testsLeft)
    /\ \/ failed' = failed \cup {Now} /\ UNCHANGED passed
       \/ /\ passed' = IF Now \in failed \cup skipped THEN passed ELSE passed \cup {Now}
          /\ UNCHANGED failed
    /\ UNCHANGED <<needs, selected, testPhase, moduleRun, unset, skipped, sigterm, guest>>

EndRun ==
    /\ testPhase = "run" /\ testsLeft = <<>>
    /\ testPhase' = "over" /\ guest' = FALSE
    /\ UNCHANGED <<needs, selected, testStep, testsLeft, moduleRun, unset, Results, sigterm>>

(* _sigterm_exception: what runs goes on, without a target.                *)
Sigterm ==
    /\ testPhase # "over" /\ ~sigterm /\ sigterm' = TRUE /\ guest' = FALSE
    /\ UNCHANGED <<needs, selected, testPhase, testStep, testsLeft, moduleRun, unset, Results>>

QemuGone ==
    /\ guest /\ guest' = FALSE
    /\ UNCHANGED <<needs, selected, testPhase, testStep, testsLeft, moduleRun, unset, Results, sigterm>>

CaseNext == \/ LoadTests \/ StartTarget \/ SetUpModule \/ SetUpClassRaises \/ PassOver \/ SetUp
            \/ SkipUnlessPassed \/ TestBody \/ TestTimesOut \/ TearDown \/ EndRun \/ Sigterm \/ QemuGone
CaseSpec == CaseInit /\ [][CaseNext]_caseVars

-----------------------------------------------------------------------------
(* When a test's code runs, the test it depends on has passed: every test  *)
(* of that name in the first suite that has one, if it is another suite,   *)
(* or before it in its own.  Not when the setUpModule or setUpClass of the *)
(* test raised SkipTest or an error, and not for a decorator that is not   *)
(* the outermost: the sorting and the lists do not know of them.           *)
DependenciesPassed ==
    Running /\ testStep = "body" =>
        \A n \in DependsOn(Now) : \A u \in selected :
            /\ NameOf(u) = n
            /\ \/ u[1] \in Provider(n) \ {Now[1]}
               \/ u[1] = Now[1] /\ u[2] < Now[2]
            => u \in passed \/ u \in unset
=============================================================================
