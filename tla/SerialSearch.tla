---------------------------- MODULE SerialSearch ----------------------------
(***************************************************************************)
(* The searches of one tracer (src/src/core/scheduler.cpp): the commands   *)
(* bfs, dfs and rand, typed one after another with loads and single steps  *)
(* in between.  They share the bookkeeping of what is already explored,    *)
(* which outlives a command.  graph[s][a][c] is where the a-th actor that  *)
(* is enabled in s leads with choice c of its system call.                 *)
(***************************************************************************)
EXTENDS Integers, FiniteSets, Sequences, SequencesExt

CONSTANTS
  State,      \* the saved states, by hash
  Initial,    \* the state after state_initialization()
  Programs,   \* the choices of graph
  BadSets,    \* the choices of bad
  Exited,     \* the states in which every process has exited
  MaxDepth,   \* the largest depth a command is given
  Budget      \* kInitialModelBudget

ASSUME SearchAssumption ==
  /\ Initial \in State /\ Exited \subseteq State
  /\ Programs \subseteq [State -> Seq(Seq(State) \ {<<>>})]
  /\ \A p \in Programs, s \in Exited : p[s] = <<>>
  /\ BadSets \subseteq SUBSET (State \ {Initial})
  /\ MaxDepth \in Nat \ {0} /\ Budget \in Nat

VARIABLES
  graph, bad,     \* the program under test and the states that violate a property
  state_set,      \* the states discovered
  expanded,       \* expanded_remaining: the states with the unbounded budget
  fully_covered,  \* the states whose reachable closure was explored
  dfs_coverage,   \* the result of each finished bounded query: "none", "cut", "full"
  running,        \* ptmc_state.running_state
  error_bound,    \* ptmc_state.error_bound
  sigint,         \* sigint_received
  mode,           \* the command in progress, or "idle"
  start, depth,   \* its initial state and depth argument
  report,         \* its closing message
  queue, queued,  \* exec_bfs: the queue and the states put on it
  at, cursor,     \* exec_bfs, exec_rand: the state in hand; exec_bfs: the edge due
  steps,          \* exec_rand: the steps of this walk
  receipt,        \* exited_receipt: the first edge to a state of Exited
  announced,      \* the receipt the closing message ends with
  stack,          \* do_dfs_iterative: the stack of frames
  cut,            \* depth_limit_reached
  forgotten       \* history: rand's SIGINT dropped state_set and kept the rest

program == <<graph, bad>>
books   == <<state_set, expanded, fully_covered, dfs_coverage>>
bfsVars == <<queue, queued, at, cursor, steps>>
dfsVars == <<stack, cut>>
svars == <<program, books, running, error_bound, sigint, mode, start, depth, report,
           receipt, announced, bfsVars, dfsVars, forgotten>>

(* The fields actor_pos, cardinality and choices of a frame: actor 0 before *)
(* the state is opened, cardinality -1 before its choices are discovered.   *)
Cursor(a) == [actor |-> a, cardinality |-> -1, choices |-> <<>>]
NoReceipt == <<>>
Nothing == [s \in State |-> [d \in 0..MaxDepth |-> "none"]]

SInit ==
  /\ graph \in Programs /\ bad \in BadSets
  /\ state_set = {} /\ expanded = {} /\ fully_covered = {} /\ dfs_coverage = Nothing
  /\ running = Initial /\ error_bound = Budget /\ sigint = FALSE
  /\ mode = "idle" /\ start = Initial /\ depth = MaxDepth /\ report = "none"
  /\ queue = <<>> /\ queued = {} /\ at = Initial
  /\ cursor = Cursor(0) /\ steps = 0 /\ receipt = NoReceipt /\ announced = NoReceipt
  /\ stack = <<>> /\ cut = FALSE /\ forgotten = FALSE

(* enabled_actor_actions(): a violating state is terminal.                  *)
Actors(s) == IF s \in bad THEN <<>> ELSE graph[s]
Successors(s) == UNION {Range(targets) : targets \in Range(Actors(s))}

(* handle_auto_choice(): the preset, or any choice; handle_user_choice():   *)
(* what the user or the batch file says.                                    *)
AutoChoice(m, n) == IF m = "bfs" THEN {1} ELSE 1..n
UserChoice(n) == 1..n

(* check_assertions() of a state just captured; its answer is stored with   *)
(* the state as property_failed.                                            *)
CheckAssertions(s) == s \in bad

(* search_actor_choice(): the first call discovers the alternatives, the    *)
(* others take them from the back.                                          *)
Selected(m, cur, n) ==
  IF cur.cardinality < 0 THEN AutoChoice(m, n) ELSE {Last(cur.choices)}
Remaining(cur, n, c) ==
  IF cur.cardinality < 0 THEN SelectSeq([i \in 1..n |-> i], LAMBDA i : i # c)
  ELSE Front(cur.choices)

(* advance_actor() once no choice is left.                                  *)
AdvanceMutant(cur, n, c) == IF Remaining(cur, n, c) = <<>> THEN cur
                            ELSE [cur EXCEPT !.cardinality = n, !.choices = Remaining(cur, n, c)]
Advance(cur, n, c) ==
  IF Remaining(cur, n, c) = <<>> THEN Cursor(cur.actor + 1)
  ELSE [cur EXCEPT !.cardinality = n, !.choices = Remaining(cur, n, c)]

(* state_transition(): the target becomes the running state, and a handler  *)
(* may spend budget, which saturates at zero.                               *)
Transition(u) ==
  /\ running' = u
  /\ error_bound' \in {error_bound, IF error_bound > 1 THEN error_bound - 1 ELSE 0}

(* remember_search_exited() and report_search_exited()                      *)
Remember(s, u) ==
  receipt' = IF receipt = NoReceipt /\ u \in Exited \ bad THEN <<s, u>> ELSE receipt
Announced(message) ==
  IF message \in {"Illegal", "Interrupted"} \/ sigint THEN NoReceipt ELSE receipt

(* A command returns with its closing message; locals are dropped.          *)
Returns(message) ==
  /\ mode' = "idle" /\ report' = message
  /\ announced' = Announced(message) /\ receipt' = NoReceipt
  /\ queue' = <<>> /\ queued' = {} /\ stack' = <<>> /\ cursor' = Cursor(0) /\ steps' = 0
  /\ at' = Initial /\ cut' = FALSE

StopForViolation == Returns("Illegal")

-----------------------------------------------------------------------------
(* The commands that start a search, and the ones between searches.         *)
Begin(m, d) ==
  /\ mode = "idle" /\ mode' = m /\ report' = "none" /\ announced' = NoReceipt
  /\ start' = running /\ depth' = d
  /\ UNCHANGED <<program, expanded, fully_covered, dfs_coverage, running, sigint,
                 receipt, forgotten>>

ResetBudget == error_bound' = Budget

BeginBfs ==
  /\ Begin("bfs", MaxDepth)
  /\ state_set' = state_set \cup {running}
  /\ queue' = <<running>> /\ queued' = {running}
  /\ UNCHANGED <<at, cursor, steps, dfsVars, error_bound>>

Frame(s, d) == [state |-> s, depth |-> d, cursor |-> Cursor(0), cut |-> FALSE]

BeginDfs(d) ==
  /\ Begin("dfs", d) /\ ResetBudget
  /\ stack' = <<Frame(running, d)>>
  /\ cut' = FALSE
  /\ UNCHANGED <<bfsVars, state_set>>

BeginRand(d) ==
  /\ Begin("rand", d) /\ ResetBudget
  /\ at' = running /\ steps' = 0
  /\ UNCHANGED <<queue, queued, cursor, dfsVars, state_set>>

(* load: any saved state, of this session or of an earlier one.             *)
Load(s) ==
  /\ mode = "idle" /\ running' = s /\ report' = "none" /\ announced' = NoReceipt
  /\ UNCHANGED <<program, books, error_bound, sigint, mode, start, depth, receipt,
                 bfsVars, dfsVars, forgotten>>

(* si: load_exec_store(), with the choice of handle_user_choice().          *)
SingleStep ==
  /\ mode = "idle"
  /\ \E targets \in Range(Actors(running)) : \E c \in UserChoice(Len(targets)) : Transition(targets[c])
  /\ report' = "none" /\ announced' = NoReceipt
  /\ UNCHANGED <<program, books, sigint, mode, start, depth, receipt, bfsVars, dfsVars, forgotten>>

Sigint ==
  /\ mode # "idle" /\ ~sigint /\ sigint' = TRUE
  /\ UNCHANGED <<program, books, running, error_bound, mode, start, depth, report,
                 receipt, announced, bfsVars, dfsVars, forgotten>>

-----------------------------------------------------------------------------
(* exec_bfs().  expanded_budget() and record_expanded(): only the unbounded *)
(* budget is ever recorded.                                                 *)
FullyExpanded(s) == s \in expanded
RecordExpanded(s) == expanded' = expanded \cup {s}

BfsExtract ==
  /\ mode = "bfs" /\ cursor = Cursor(0) /\ queue # <<>>
  /\ LET s == Head(queue)
     IN  \/ /\ FullyExpanded(s)
            /\ queue' = Tail(queue)
            /\ UNCHANGED <<mode, report, receipt, announced, queued, at, cursor, steps, dfsVars>>
         \/ ~FullyExpanded(s) /\ s \in bad /\ StopForViolation
         \/ /\ ~FullyExpanded(s) /\ s \notin bad
            /\ queue' = Tail(queue) /\ at' = s /\ cursor' = Cursor(1)
            /\ UNCHANGED <<mode, report, receipt, announced, queued, steps, dfsVars>>
  /\ UNCHANGED <<program, books, running, error_bound, sigint, start, depth, forgotten>>

BfsEdge ==
  /\ mode = "bfs" /\ cursor.actor \in 1..Len(Actors(at))
  /\ LET targets == Actors(at)[cursor.actor]
     IN  \E c \in Selected("bfs", cursor, Len(targets)) :
         LET u == targets[c]
         IN  /\ Transition(u)
             /\ \/ CheckAssertions(u) /\ StopForViolation /\ UNCHANGED state_set
                \/ /\ ~CheckAssertions(u) /\ Remember(at, u)
                   /\ state_set' = state_set \cup {u}
                   /\ queued' = IF FullyExpanded(u) THEN queued ELSE queued \cup {u}
                   /\ queue' = IF FullyExpanded(u) \/ u \in queued THEN queue ELSE Append(queue, u)
                   /\ cursor' = Advance(cursor, Len(targets), c)
                   /\ UNCHANGED <<mode, report, announced, at, steps, dfsVars>>
  /\ UNCHANGED <<program, expanded, fully_covered, dfs_coverage, sigint, start, depth,
                 forgotten>>

(* clear_search_bookkeeping()                                               *)
ClearBooks ==
  /\ state_set' = {} /\ expanded' = {} /\ fully_covered' = {} /\ dfs_coverage' = Nothing

(* The node is recorded as expanded, and only then SIGINT is looked at.     *)
BfsNodeDone ==
  /\ mode = "bfs" /\ cursor.actor > Len(Actors(at))
  /\ IF sigint
     THEN ClearBooks /\ Returns("Interrupted") /\ sigint' = FALSE /\ forgotten' = FALSE
     ELSE /\ RecordExpanded(at) /\ cursor' = Cursor(0)
          /\ UNCHANGED <<state_set, fully_covered, dfs_coverage, sigint, mode, report, receipt,
                         announced, queue, queued, at, steps, dfsVars, forgotten>>
  /\ UNCHANGED <<program, running, error_bound, start, depth>>

(* all_discovered_fully_expanded()                                          *)
AllExpandedMutant == FullyExpanded(start)
AllExpanded == \A s \in state_set : FullyExpanded(s)

BfsReturns ==
  /\ mode = "bfs" /\ cursor = Cursor(0) /\ queue = <<>>
  /\ fully_covered' = IF AllExpanded THEN fully_covered \cup state_set ELSE fully_covered
  /\ Returns(IF AllExpanded THEN "Complete" ELSE "Incomplete")
  /\ UNCHANGED <<program, state_set, expanded, dfs_coverage, running, error_bound, sigint,
                 start, depth, forgotten>>

-----------------------------------------------------------------------------
(* do_dfs_iterative(): the frame on top is opened, expands its edges one by *)
(* one, each with a child on top of it, and is finished.                    *)
Top == stack[Len(stack)]

Merge(f, isCut) == [f EXCEPT !.cut = @ \/ isCut]

(* The lambda finish_frame()                                                *)
PublishMutant(isCut) ==
  /\ dfs_coverage' = [dfs_coverage EXCEPT ![Top.state] =
                        [d \in 0..MaxDepth |-> IF isCut THEN "cut" ELSE "full"]]
  /\ fully_covered' = IF isCut THEN fully_covered ELSE fully_covered \cup {Top.state}
Publish(isCut) ==
  /\ dfs_coverage' = [dfs_coverage EXCEPT ![Top.state][Top.depth] =
                        IF isCut THEN "cut" ELSE "full"]
  /\ fully_covered' = IF isCut THEN fully_covered ELSE fully_covered \cup {Top.state}

FinishFrame(isCut, publish) ==
  LET rest == Front(stack)
  IN  /\ IF publish THEN Publish(isCut) ELSE UNCHANGED <<dfs_coverage, fully_covered>>
      /\ stack' = IF rest = <<>> THEN rest
                  ELSE [rest EXCEPT ![Len(rest)] = Merge(@, isCut)]
      /\ cut' = (cut \/ isCut)
      /\ UNCHANGED <<mode, report, receipt, announced, bfsVars>>

(* SIGINT is looked at between iterations; a frame is opened and its first  *)
(* edge taken in the same one.                                              *)
AtLoopTop == mode = "dfs" /\ stack # <<>> /\ Top.cursor # Cursor(1)

DfsInterrupted ==
  /\ AtLoopTop /\ sigint
  /\ Returns("Interrupted") /\ sigint' = FALSE
  /\ UNCHANGED <<program, books, running, error_bound, start, depth, forgotten>>

AtLimit(f) == f.depth = 0

Answered(f) == f.state \in fully_covered \/ dfs_coverage[f.state][f.depth] # "none"

DfsOpen ==
  /\ AtLoopTop /\ ~sigint /\ Top.cursor = Cursor(0)
  /\ state_set' = state_set \cup {Top.state}
  /\ \/ /\ Answered(Top)
        /\ FinishFrame(Top.state \notin fully_covered
                         /\ dfs_coverage[Top.state][Top.depth] = "cut", FALSE)
     \/ /\ ~Answered(Top) /\ Top.state \in bad
        /\ StopForViolation /\ UNCHANGED <<dfs_coverage, fully_covered>>
     \/ /\ ~Answered(Top) /\ Top.state \notin bad /\ Actors(Top.state) = <<>>
        /\ FinishFrame(FALSE, TRUE)
     \/ /\ ~Answered(Top) /\ Actors(Top.state) # <<>> /\ AtLimit(Top)
        /\ FinishFrame(TRUE, TRUE)
     \/ /\ ~Answered(Top) /\ Actors(Top.state) # <<>> /\ ~AtLimit(Top)
        /\ stack' = [stack EXCEPT ![Len(stack)] = [@ EXCEPT !.cursor = Cursor(1)]]
        /\ UNCHANGED <<dfs_coverage, fully_covered, mode, report, receipt, announced, bfsVars, cut>>
  /\ UNCHANGED <<program, expanded, running, error_bound, sigint, start, depth, forgotten>>

DfsEdge ==
  /\ mode = "dfs" /\ stack # <<>> /\ Top.cursor.actor \in 1..Len(Actors(Top.state))
  /\ AtLoopTop => ~sigint
  /\ LET targets == Actors(Top.state)[Top.cursor.actor]
         n == Len(targets)
     IN  \E c \in Selected("dfs", Top.cursor, n) :
         LET u == targets[c]
         IN  /\ Transition(u)
             /\ \/ CheckAssertions(u) /\ StopForViolation
                \/ /\ ~CheckAssertions(u) /\ Remember(Top.state, u)
                   /\ stack' = Append([stack EXCEPT ![Len(stack)].cursor = Advance(@, n, c)],
                                      Frame(u, Top.depth - 1))
                   /\ UNCHANGED <<mode, report, announced, bfsVars, cut>>
  /\ UNCHANGED <<program, books, sigint, start, depth, forgotten>>

DfsFinish ==
  /\ AtLoopTop /\ ~sigint /\ Top.cursor.actor > Len(Actors(Top.state))
  /\ FinishFrame(Top.cut, TRUE)
  /\ UNCHANGED <<program, state_set, expanded, running, error_bound, sigint, start, depth,
                 forgotten>>

DfsReturns ==
  /\ mode = "dfs" /\ stack = <<>>
  /\ Returns(IF cut THEN "DepthLimit" ELSE "Complete")
  /\ UNCHANGED <<program, books, running, error_bound, sigint, start, depth, forgotten>>

-----------------------------------------------------------------------------
(* exec_rand(): walks of at most depth steps from start, until SIGINT.      *)
RandStep ==
  /\ mode = "rand" /\ steps < depth
  /\ \E targets \in Range(Actors(at)) : \E c \in AutoChoice("rand", Len(targets)) :
       LET u == targets[c]
       IN  /\ Transition(u)
           /\ state_set' = state_set \cup {u}
           /\ \/ CheckAssertions(u) /\ StopForViolation
              \/ /\ ~CheckAssertions(u) /\ at' = u /\ steps' = steps + 1
                 /\ UNCHANGED <<mode, report, receipt, announced, queue, queued, cursor, dfsVars>>
  /\ UNCHANGED <<program, expanded, fully_covered, dfs_coverage, sigint, start, depth,
                 forgotten>>

(* Between two walks SIGINT is looked at: of the bookkeeping only state_set *)
(* is dropped.                                                              *)
RandWalkEnds ==
  /\ mode = "rand"
  /\ steps = depth \/ Actors(at) = <<>>
  /\ IF sigint
     THEN /\ Returns("Interrupted") /\ sigint' = FALSE
          /\ state_set' = {} /\ forgotten' = (forgotten \/ expanded # {})
     ELSE /\ at' = start /\ steps' = 0
          /\ UNCHANGED <<mode, report, receipt, announced, queue, queued, cursor, dfsVars, sigint,
                         state_set, forgotten>>
  /\ UNCHANGED <<program, expanded, fully_covered, dfs_coverage, running, error_bound,
                 start, depth>>

-----------------------------------------------------------------------------
SearchStep ==
  \/ BfsExtract \/ BfsEdge \/ BfsNodeDone \/ BfsReturns
  \/ DfsInterrupted \/ DfsOpen \/ DfsEdge \/ DfsFinish \/ DfsReturns
  \/ RandStep \/ RandWalkEnds

SNext ==
  \/ SearchStep \/ Sigint \/ BeginBfs \/ SingleStep
  \/ \E d \in 1..MaxDepth : BeginDfs(d) \/ BeginRand(d)
  \/ \E s \in State : Load(s)

(* A search is a loop of one thread: it goes on.                            *)
SSpec == SInit /\ [][SNext]_svars /\ WF_svars(SearchStep)

-----------------------------------------------------------------------------
(* Near[d][s]: the states at most d steps from s.                           *)
Near[d \in 0..Cardinality(State)] ==
  IF d = 0 THEN [s \in State |-> {s}]
  ELSE [s \in State |-> {s} \cup UNION {Near[d - 1][u] : u \in Successors(s)}]
Reach(s) == Near[Cardinality(State)][s]

(* The end of an i-step walk from s, for i = d.                             *)
After[d \in 0..MaxDepth] ==
  IF d = 0 THEN [s \in State |-> {s}]
  ELSE [s \in State |-> UNION {After[d - 1][u] : u \in Successors(s)}]

(* Whatever commands came before and however they ended, the closing        *)
(* message is true of the state the search started from: "Complete explore  *)
(* all" means no violation can be reached, "Depth limit reached" that none  *)
(* lies within the depth, "Stopped for illegal state" that there is one.    *)
(* A SEARCH_EXITED receipt names an edge that this search can take, to a    *)
(* state in which every process exited.  The interrupted rand of the        *)
(* finding is set aside.                                                    *)
ReportSound ==
  /\ report = "Complete" /\ ~forgotten => Reach(start) \cap bad = {}
  /\ report = "DepthLimit" /\ ~forgotten => Near[depth][start] \cap bad = {}
  /\ report = "Illegal" => Reach(start) \cap bad # {}
  /\ announced # NoReceipt =>
       /\ announced[1] \in Reach(start)
       /\ announced[2] \in (Successors(announced[1]) \cap Exited) \ bad

(* "The result belongs to this exact bounded query" (scheduler.cpp): a      *)
(* cached cut says that some walk of that length can go on and that nothing *)
(* violates within it, a cached completion that nothing violates at all.    *)
CoverageExact ==
  ~forgotten =>
    \A s \in State, d \in 0..MaxDepth :
      /\ dfs_coverage[s][d] = "cut" =>
           /\ \E u \in After[d][s] : Actors(u) # <<>>
           /\ Near[d][s] \cap bad = {}
      /\ dfs_coverage[s][d] = "full" => Reach(s) \cap bad = {}

(* bfs and dfs return, on cyclic programs too.                              *)
SearchReturns == mode \in {"bfs", "dfs"} ~> mode = "idle"

(* "Only a whole successful, unbounded BFS proves those nodes' reachable    *)
(* closure was covered" (scheduler.cpp): Complete is only reported when no  *)
(* violation can be reached.                                                *)
CompleteExploresAll == report = "Complete" => Reach(start) \cap bad = {}
=============================================================================
