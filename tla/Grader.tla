-------------------------------- MODULE Grader --------------------------------
(***************************************************************************)
(* bench/grader.py: the verdict read from the files the SWE-bench harness  *)
(* left in the run's report directory.  A file is a record whose domain    *)
(* says which keys it has: "own" is whether it lies under the instance's   *)
(* directory, "resolved" is a Boolean and "tests" the counts of passed and *)
(* failed tests; a file without "own" does not parse.                      *)
(***************************************************************************)
EXTENDS Naturals, Sequences, SequencesExt

(* What GradeResult says.                                                  *)
Failed(why) == [success |-> FALSE, passed |-> 0, total |-> 0, error |-> why]

Parses(file) == "own" \in DOMAIN file

(* The instance's own reports are looked at before all that there are.     *)
Parsed(files) == {i \in DOMAIN files : Parses(files[i])}
Own(files) == {i \in Parsed(files) : files[i].own}

(* The first with a test status or a verdict, else the last that parsed.   *)
Complete(files, places) == {i \in places : DOMAIN files[i] \cap {"tests", "resolved"} # {}}

ChosenReport(files) ==
  LET all == Parsed(files)
      own == Own(files)
  IN files[IF Complete(files, own) # {} THEN Min(Complete(files, own))
           ELSE IF Complete(files, all) # {} THEN Min(Complete(files, all))
           ELSE Max(all)]

NoTests == [f2p_pass |-> 0, f2p_fail |-> 0, p2p_fail |-> 0]

(* mutant: a report without tests that failed is a pass *)
AllPass_vacuous(tests) == tests.f2p_fail = 0 /\ tests.p2p_fail = 0

AllPass(tests) == tests.f2p_pass > 0 /\ tests.f2p_fail = 0 /\ tests.p2p_fail = 0

(* _parse *)
Parse(files) ==
  IF Parsed(files) = {} THEN Failed("no report")
  ELSE LET report == ChosenReport(files)
           tests  == IF "tests" \in DOMAIN report THEN report.tests ELSE NoTests
       IN [success |-> IF "resolved" \in DOMAIN report THEN report.resolved
                                                       ELSE AllPass(tests),
           passed  |-> tests.f2p_pass,
           total   |-> tests.f2p_pass + tests.f2p_fail,
           error   |-> ""]

(* grade: an evaluation that hangs is killed and counts as a failure.      *)
Grade(harness) ==
  IF harness.hangs THEN Failed("timed out") ELSE Parse(harness.files)
===============================================================================
