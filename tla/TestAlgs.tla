------------------------------ MODULE TestAlgs -------------------------------
(***************************************************************************)
(* The test_algs driver (src/flash-graph/test-algs/test_algs.cpp):         *)
(*   test_algs conf graph index alg [options]                              *)
(* main checks the argument count, opens the graph and dispatches on alg;  *)
(* each run_<alg> parses its options with getopt, validates them and       *)
(* calls the algorithm.  The model follows one invocation: which checks    *)
(* run, in which order, whether the algorithm is computed, and the exit    *)
(* status.  Option values are abstracted to the ones the checks tell       *)
(* apart; the algorithms themselves are one step.                          *)
(*                                                                         *)
(* NDEBUG says the build compiles assert() out; IOFails says an output or  *)
(* vertex file may fail to open.                                           *)
(***************************************************************************)
EXTENDS Naturals, Sequences

CONSTANTS
  Algs,      \* the algorithm names tried, including unknown ones
  MaxOpts,   \* the most option tokens an invocation passes
  NDEBUG,
  IOFails

(* The getopt option strings of the run_<alg> functions: the letters each  *)
(* accepts.  run_triangle, run_cc and run_scc never call getopt (NoGetopt). *)
Getopt ==
  [a \in {"cycle_triangle", "triangle", "local_scan", "topK_scan", "wcc",
          "cc", "scc", "diameter", "pagerank", "pagerank2", "sstsg",
          "ts_wcc", "kcore", "betweenness", "overlap", "bfs", "closeness",
          "diversity", "toposort", "louvain"} |->
     CASE a = "cycle_triangle" -> {"f"}
       [] a = "local_scan"     -> {"H"}
       [] a = "topK_scan"      -> {"K"}
       [] a = "wcc"            -> {"s", "o"}
       [] a = "diameter"       -> {"p", "d", "s"}
       [] a \in {"pagerank", "pagerank2"} -> {"i", "D"}
       [] a = "sstsg"          -> {"n", "u", "o", "t", "l", "a"}
       [] a = "ts_wcc"         -> {"u", "t", "l"}
       [] a = "kcore"          -> {"d", "k", "m"}
       [] a = "betweenness"    -> {"w", "s"}
       [] a = "overlap"        -> {"o", "t"}
       [] a \in {"bfs", "closeness"} -> {"e", "s"}
       [] a = "diversity"      -> {"e", "m"}
       [] a = "toposort"       -> {"e"}
       [] a = "louvain"        -> {"l"}
       [] OTHER                -> {}]

Known == DOMAIN Getopt

(* The run_<alg> that never call getopt: their options are not read.      *)
NoGetopt == {"triangle", "cc", "scc"}

(* The run_<alg> whose default case is assert(0) rather than abort().       *)
AssertAlgs == {"betweenness", "closeness", "diversity", "toposort", "louvain"}

(* The run_<alg> whose default case prints the usage and abort()s.          *)
AbortAlgs == Known \ (AssertAlgs \cup NoGetopt)

(* The values an option's argument takes, as far as a check tells them     *)
(* apart, as the option's text; "v" is any other value or no argument.     *)
ArgVals(l) ==
  CASE l = "H" -> {"1", "3"}
    [] l = "k" -> {"1", "3"}
    [] l = "e" -> {"IN", "BOTH", "bad"}
    [] l = "u" -> {"day", "bad"}
    [] OTHER   -> {"v"}

(* The option values before getopt: the variables' initialisers.           *)
Default(l) == CASE l = "H" -> "1" [] l = "k" -> "2" [] OTHER -> ""

Token(a) == UNION {{[opt |-> l, arg |-> v] : v \in ArgVals(l)} : l \in Getopt[a] \cup {"x"}}
OptSeqs(a) == UNION {[1 .. n -> Token(a)] : n \in 0 .. MaxOpts}

Statuses == {0, 1, 134, 139, 255}   \* exit(0), exit(1), SIGABRT, SIGSEGV, exit(-1)

VARIABLES
  pc,       \* "main", "parse", "compute", "exit"
  alg,
  args,     \* the option tokens getopt has still to return
  vfile,    \* overlap: the first argument after alg is a vertex file
  par,      \* the parsed option values
  rejected, \* an option getopt returned as '?'
  ran,      \* the algorithm was computed
  status    \* the exit status

vars == <<pc, alg, args, vfile, par, rejected, ran, status>>

Init ==
  /\ pc = "main" /\ alg = "" /\ args = <<>> /\ vfile = FALSE
  /\ par = [l \in {} |-> ""] /\ rejected = FALSE /\ ran = FALSE /\ status = 0

Exit(s) == pc' = "exit" /\ status' = s

(* main: fewer than four arguments print the usage and exit(-1); a graph   *)
(* that FG_graph::create cannot open exits(-1); a known alg goes to its    *)
(* run_<alg>, an unknown one prints an error and main returns 0.  run_     *)
(* overlap first takes argv[1] as the vertex file and exits(-1) when there *)
(* is none.                                                                *)
Main ==
  /\ pc = "main"
  /\ \E argc \in {3, 4}, opened \in BOOLEAN, a \in Algs, fv \in BOOLEAN :
       /\ alg' = a /\ vfile' = fv
       /\ \E as \in (IF a \in Known THEN OptSeqs(a) ELSE {<<>>}) :
            /\ args' = as
            /\ CASE argc < 4 -> Exit(255)
                 [] ~opened -> Exit(255)
                 [] a \notin Known -> Exit(0)
                 [] a = "overlap" /\ ~fv /\ as = <<>> -> Exit(255)
                 [] OTHER -> pc' = "parse" /\ UNCHANGED status
       /\ par' = [l \in (IF a \in Known THEN Getopt[a] ELSE {}) |-> Default(l)]
  /\ UNCHANGED <<rejected, ran>>

(* One turn of the getopt loop: a letter of the option string stores its   *)
(* argument; any other is '?', whose default case prints the usage and     *)
(* abort()s, or runs assert(0), which NDEBUG turns into nothing.           *)
GetOpt ==
  /\ pc = "parse"
  /\ alg \notin NoGetopt
  /\ args # <<>>
  /\ LET o == Head(args)
     IN  IF o.opt \in Getopt[alg]
           THEN par' = [par EXCEPT ![o.opt] = o.arg] /\ UNCHANGED <<pc, status, rejected>>
           ELSE /\ rejected' = TRUE /\ UNCHANGED par
                /\ IF alg \in AbortAlgs \/ ~NDEBUG
                     THEN Exit(134)
                     ELSE UNCHANGED <<pc, status>>
  /\ args' = Tail(args)
  /\ UNCHANGED <<alg, vfile, ran>>

(* edge_str2edge: an empty or unknown edge type exits(1).                   *)
EdgeOK == par["e"] \in {"IN", "OUT", "BOTH"}

(* run_local_scan: only one or two hops are computed, else exit(1).       *)
HopsOK == par["H"] \in {"1", "2"}

(* run_kcore: kmin below 2 exits(-1).                                       *)
KminOK == par["k"] \notin {"0", "1"}

(* run_diversity: BOTH_EDGES is refused with exit(-1).                     *)
DiversityRefuses == par["e"] = "BOTH"

(* assert on a FILE that fopen could not open (read_vertices, run_overlap): *)
(* SIGABRT, or without asserts a use of the NULL FILE, SIGSEGV.            *)
AssertFileFault == IF NDEBUG THEN 139 ELSE 134

(* The checks after the getopt loop, each before the algorithm is called:  *)
(* the edge type of bfs, closeness and diversity, diversity's refusal of   *)
(* BOTH, local scan's hop count, kcore's kmin.  overlap reads the vertex   *)
(* file first: when argv[1] is an option it is no file, fopen fails and    *)
(* assert(f), or without asserts getline on NULL, ends the process.  The   *)
(* run_<alg> without getopt come here with their options unread.           *)
Check ==
  /\ pc = "parse" /\ (args = <<>> \/ alg \in NoGetopt)
  /\ CASE alg \in {"bfs", "closeness", "diversity"} /\ ~EdgeOK -> Exit(1)
       [] alg = "diversity" /\ DiversityRefuses -> Exit(255)
       [] alg = "local_scan" /\ ~HopsOK -> Exit(1)
       [] alg = "kcore" /\ ~KminOK -> Exit(255)
       [] alg = "overlap" /\ ~vfile -> Exit(AssertFileFault)
       [] OTHER -> pc' = "compute" /\ UNCHANGED status
  /\ UNCHANGED <<alg, args, vfile, par, rejected, ran>>

(* The file run_wcc and run_overlap write their result to: -o or none.    *)
OutFile == IF "o" \in DOMAIN par THEN par["o"] ELSE ""

(* The algorithm runs; then the result is written where -o asks.  run_wcc  *)
(* returns from a failed fopen, run_overlap assert()s the FILE, or without *)
(* asserts writes to NULL.  Then destroy_flash_graph and main returns 0.   *)
Compute ==
  /\ pc = "compute"
  /\ ran' = TRUE
  /\ \E fail \in (IF IOFails /\ OutFile # "" THEN BOOLEAN ELSE {FALSE}) :
       IF fail /\ alg = "overlap" THEN Exit(AssertFileFault) ELSE Exit(0)
  /\ UNCHANGED <<alg, args, vfile, par, rejected>>

Next == Main \/ GetOpt \/ Check \/ Compute

Spec == Init /\ [][Next]_vars /\ WF_vars(Next)

-----------------------------------------------------------------------------
TypeOK ==
  /\ pc \in {"main", "parse", "compute", "exit"}
  /\ args \in Seq([opt : {"x"} \cup UNION {Getopt[a] : a \in Known},
                   arg : {"1", "3", "IN", "BOTH", "bad", "day", "v"}])
  /\ alg \in Known => DOMAIN par = Getopt[alg]
  /\ status \in Statuses
  /\ ran \in BOOLEAN /\ rejected \in BOOLEAN

(* The spec's entry point: exit code 0 on success, nonzero on an argument  *)
(* error, an unknown algorithm included.  A zero status means the          *)
(* algorithm ran with options it accepts.                                  *)
ZeroExitMeansSuccess ==
  (pc = "exit" /\ status = 0) => ran /\ ~rejected

=============================================================================
