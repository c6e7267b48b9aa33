------------------------------ MODULE TurnLoop ------------------------------
(***************************************************************************)
(* The loop of turns an agent runs for each event of its session           *)
(* (session/agent.go, Agent.ProcessEvent), with the state the executor     *)
(* keeps across turns and events (agent/turn.go) and the compaction of the *)
(* conversation (agent/context.go). The model answers anything.            *)
(***************************************************************************)
EXTENDS Integers, Sequences, FiniteSets

CONSTANTS
  Roles,           \* the roles a session may have
  MaxTurns,        \* effectiveMaxTurns
  MaxErrors,       \* maxConsecutiveErrors
  GateTurn,        \* the turn of HardGateWriteEnforce
  ReflectEvery,    \* the turns from one reflection to the next
  CommentLimit,    \* MaxCommentsPerSession; 0 for none
  KeepMessages,    \* ContextTracker.KeepTurns, which counts messages
  MaxCalls,        \* bound: tool calls of one answer
  MaxNotes,        \* bound: messages of steering after one turn
  MaxEvents        \* bound: events of the session

ASSUME LoopAssumption ==
  /\ Roles \subseteq {"pm", "implementer", "reviewer", "tester", "devops"}
  /\ MaxTurns \in Nat \ {0} /\ MaxErrors \in Nat \ {0}
  /\ GateTurn \in Nat /\ ReflectEvery \in Nat \ {0} /\ CommentLimit \in Nat
  /\ KeepMessages \in Nat \ {0}
  /\ MaxCalls \in Nat \ {0} /\ MaxNotes \in Nat \ {0}
  /\ MaxEvents \in Nat

VARIABLES
  role,      \* a.role
  noMerge,   \* a.policy.NoAutoMerge
  planOnly,  \* the issue is tagged analyze-only or plan-only
  issue,     \* the state the labels of the issue stood for when last of use
  events,    \* history: events taken so far
  analysis,  \* a.analysisMode, once analysisModeSet
  seen,      \* fsmState, read when the event was taken
  misread,   \* history: that read failed
  at,        \* where the goroutine of the session is
  turn,      \* the turn of the event
  turnCount, \* te.turnCount, over all events
  errors,    \* consecutiveErrors
  messages,  \* the conversation of the event
  pending,   \* tool calls of the last answer still to be handled
  hidden,    \* te.excludeTools
  gated,     \* the gate has fired
  wrote,     \* write_file or forgejo_create_pr was called
  comments,  \* a.commentCount
  planned,   \* a.subIssueCount > 0
  worked     \* history: a tool that writes has run for this event

setting == <<role, noMerge, planOnly>>
taken   == <<events, analysis, seen, misread>>
session == <<turnCount, wrote, comments, planned>>
gate    == <<hidden, gated>>
locals  == <<at, turn, errors, messages, pending>>
vars == <<setting, issue, taken, session, gate, locals, worked>>

Tools == {"read_file", "write_file", "forgejo_create_pr", "forgejo_merge_pr",
          "forgejo_comment", "forgejo_create_issue"}

(* buildRoleRegistry, as far as the loop tells tools apart.                *)
Registered(r) ==
  {"read_file", "forgejo_comment"} \cup
  CASE r = "pm"       -> {"forgejo_create_issue", "write_file"}
    [] r = "reviewer" -> {"forgejo_merge_pr"}
    [] OTHER          -> {"forgejo_create_issue", "write_file", "forgejo_create_pr", "forgejo_merge_pr"}

(* isImplementationTool; the git tool goes the way of write_file.          *)
Implementation == {"write_file", "forgejo_create_pr", "forgejo_merge_pr"}

(* The tools the hard gate takes out of the schema, of those above.        *)
GatedButComment == {"read_file"}
Gated == {"read_file", "forgejo_comment"}

IssueStates == {"opened", "planning", "blocked"}

(* A message of the user, of a tool, or of the assistant with its number   *)
(* of tool calls.                                                          *)
User == [from |-> "user", calls |-> 0]
Tool == [from |-> "tool", calls |-> 0]
Assistant(n) == [from |-> "assistant", calls |-> n]

Notes(n) == [i \in 1..n |-> User]

(* What buildContext finds and the event itself, as one message.           *)
Context == <<User>>
-----------------------------------------------------------------------------
Init ==
  /\ role \in Roles
  /\ noMerge \in BOOLEAN
  /\ planOnly \in BOOLEAN
  /\ issue = "opened"
  /\ events = 0
  /\ analysis = "unset" /\ seen = "opened" /\ misread = FALSE
  /\ at = "waiting" /\ turn = 0 /\ errors = 0
  /\ messages = <<>> /\ pending = 0
  /\ turnCount = 0 /\ wrote = FALSE /\ comments = 0 /\ planned = FALSE
  /\ hidden = {} /\ gated = FALSE
  /\ worked = FALSE

(* detectIssueState reads the labels for each event; detectAnalysisMode    *)
(* reads them once for the session, and a read that fails counts as one.   *)
StateReadOnce(state, ok) == IF events > 0 THEN seen ELSE IF ok THEN state ELSE "opened"
StateRead(state, ok) == IF ok THEN state ELSE "opened"

AnalysisRead(ok) ==
  IF analysis # "unset" THEN analysis ELSE IF ok /\ planOnly THEN "on" ELSE "off"

(* People, the scheduler and other sessions may have changed the labels;   *)
(* the loop does not look at them again before the next event.             *)
TakesEvent ==
  /\ at = "waiting"
  /\ events < MaxEvents
  /\ events' = events + 1
  /\ issue' \in IssueStates
  /\ \E okMode, okState \in BOOLEAN :
       /\ analysis' = AnalysisRead(okMode)
       /\ seen' = StateRead(issue', okState)
       /\ misread' = ~okState
  /\ turn' = 0 /\ errors' = 0 /\ pending' = 0
  /\ messages' = Context
  /\ at' = "turn"
  /\ worked' = FALSE
  /\ UNCHANGED <<setting, session, gate>>

(* ProcessEvent is over, and its conversation with it.                     *)
Returns ==
  /\ at' = "waiting" /\ turn' = 0 /\ errors' = 0
  /\ messages' = <<>> /\ pending' = 0

(* The for loop goes on to its next turn, or the turns are used up.        *)
LastTurn == turn + 1 >= MaxTurns
NextTurn == turn' = turn + 1 /\ at' = "turn"

(* The conversation a request is made of: a restored session is told to    *)
(* verify first, and what is too long is compacted.                        *)
Compact(ms) ==
  IF Len(ms) <= KeepMessages + 1 THEN ms
  ELSE <<User>> \o SubSeq(ms, Len(ms) - KeepMessages + 1, Len(ms))

Verified == IF turnCount = 0 THEN {messages, Append(messages, User)} ELSE {messages}
Conversations == Verified \cup {Compact(ms) : ms \in Verified}

Runs ==
  /\ at = "turn"
  /\ turnCount' = turnCount + 1
  /\ UNCHANGED <<setting, issue, taken, gate, wrote, comments, planned, worked>>

(* The budget is spent, or no client answers.                              *)
RunFails ==
  /\ Runs
  /\ \/ /\ errors + 1 >= MaxErrors \/ LastTurn
        /\ Returns
     \/ /\ errors + 1 < MaxErrors /\ ~LastTurn
        /\ errors' = errors + 1
        /\ messages' \in {Append(ms, User) : ms \in Conversations}
        /\ NextTurn
        /\ UNCHANGED pending

Reflects == turn > 0 /\ turn % ReflectEvery = 0
Reflected(ms) == IF Reflects THEN Append(ms, User) ELSE ms

(* An answer without tool calls.                                           *)
Concludes == Runs /\ Returns

AsksForTools ==
  /\ Runs
  /\ \E ms \in Conversations, n \in 1..MaxCalls :
       /\ messages' = Append(Reflected(ms), Assistant(n))
       /\ pending' = n
  /\ at' = "tools" /\ errors' = 0
  /\ UNCHANGED turn
-----------------------------------------------------------------------------
(* The calls of an answer, one by one. The model may name any tool, hidden *)
(* and unregistered ones too: Execute knows nothing of the schema.         *)
Handles ==
  /\ at = "tools" /\ pending > 0
  /\ UNCHANGED <<setting, taken, turnCount, gated>>

AnsweredSilently == messages' = messages
Answered == messages' = Append(messages, Tool)

GoesOn ==
  /\ Answered
  /\ pending' = pending - 1
  /\ UNCHANGED <<at, turn, errors>>

Forbidden(tool) ==
  /\ tool \in Implementation
  /\ analysis = "on" \/ seen \in {"planning", "blocked"}

MergeForbidden == noMerge /\ role = "reviewer"

LimitReached == CommentLimit > 0 /\ comments >= CommentLimit

(* A policy that requires review refuses a merge, too, when it finds no    *)
(* approval on the pull request.                                           *)
Refuses(tool) ==
  /\ Handles
  /\ Forbidden(tool) \/ tool = "forgejo_merge_pr"
  /\ GoesOn
  /\ UNCHANGED <<issue, hidden, wrote, comments, planned, worked>>

LimitsComments ==
  /\ Handles
  /\ LimitReached
  /\ GoesOn
  /\ hidden' = {"forgejo_comment"}
  /\ UNCHANGED <<issue, wrote, comments, planned, worked>>

Executes(tool) ==
  /\ Handles
  /\ ~Forbidden(tool)
  /\ tool = "forgejo_merge_pr" => ~MergeForbidden
  /\ tool = "forgejo_comment" => ~LimitReached
  /\ wrote' = (wrote \/ tool \in {"write_file", "forgejo_create_pr"})
  /\ worked' = (worked \/ (tool \in Implementation /\ tool \in Registered(role)))
  /\ UNCHANGED hidden

(* After its pull request an implementer stops, even one that failed, and  *)
(* after its plan a manager.                                               *)
Stops(tool) ==
  \/ tool = "forgejo_create_pr" /\ role = "implementer"
  \/ tool = "forgejo_comment" /\ role = "pm" /\ planned

Succeeds(tool) ==
  /\ Executes(tool)
  /\ tool \in Registered(role)
  /\ comments' = comments + (IF tool = "forgejo_comment" THEN 1 ELSE 0)
  /\ planned' = (planned \/ tool = "forgejo_create_issue")
  /\ IF Stops(tool) THEN Returns ELSE GoesOn
  /\ UNCHANGED issue

Fails(tool) ==
  /\ Executes(tool)
  /\ IF Stops(tool) THEN Returns ELSE GoesOn
  /\ UNCHANGED <<issue, comments, planned>>

(* The merge queue refuses a pull request; the label may not be added.     *)
QueueBlocks ==
  /\ Executes("forgejo_create_pr")
  /\ "forgejo_create_pr" \in Registered(role)
  /\ issue' \in {issue, "blocked"}
  /\ Returns
  /\ UNCHANGED <<comments, planned>>

(* The stall warning and ApplySteering with its hard gate.                 *)
GateFires == role = "implementer" /\ turnCount >= GateTurn /\ ~wrote /\ ~gated

EndsTurn ==
  /\ at = "tools" /\ pending = 0
  /\ gated' = (gated \/ GateFires)
  /\ hidden' = IF GateFires THEN Gated ELSE hidden
  /\ IF LastTurn THEN Returns
     ELSE /\ NextTurn
          /\ \E n \in 0..MaxNotes :
               /\ GateFires => n > 0
               /\ messages' = messages \o Notes(n)
          /\ UNCHANGED <<errors, pending>>
  /\ UNCHANGED <<setting, issue, taken, session, worked>>
-----------------------------------------------------------------------------
Works ==
  \/ RunFails \/ Concludes \/ AsksForTools \/ EndsTurn
  \/ LimitsComments \/ QueueBlocks
  \/ \E tool \in Tools : Refuses(tool) \/ Succeeds(tool) \/ Fails(tool)

Next == TakesEvent \/ Works

Spec == Init /\ [][Next]_vars
-----------------------------------------------------------------------------
TypeOK ==
  /\ role \in Roles /\ noMerge \in BOOLEAN /\ planOnly \in BOOLEAN
  /\ issue \in IssueStates /\ events \in 0..MaxEvents
  /\ analysis \in {"unset", "on", "off"}
  /\ seen \in IssueStates /\ misread \in BOOLEAN
  /\ at \in {"waiting", "turn", "tools"}
  /\ turn \in 0 .. MaxTurns - 1 /\ turnCount \in Nat /\ errors \in 0..MaxErrors
  /\ messages \in Seq([from : {"user", "tool", "assistant"}, calls : 0..MaxCalls])
  /\ pending \in 0..MaxCalls
  /\ hidden \in SUBSET Tools /\ gated \in BOOLEAN /\ wrote \in BOOLEAN
  /\ comments \in Nat /\ planned \in BOOLEAN /\ worked \in BOOLEAN

(* The calls of the answer ms[i] have their results, and no more.          *)
Complete(ms, i) ==
  LET n == ms[i].calls IN
  /\ i + n <= Len(ms)
  /\ \A j \in i + 1 .. i + n : ms[j] = Tool
  /\ i + n < Len(ms) => ms[i + n + 1] # Tool

(* What a chat completion must look like: whenever a request is made, each *)
(* answer with n tool calls is followed by n results and no more, on every *)
(* path a call can take and after every compaction.                        *)
CallsAnswered ==
  at = "turn" =>
    \A i \in DOMAIN messages : messages[i].calls > 0 => Complete(messages, i)

(* "Remove forgejo_comment from future LLM schema so it won't try again"   *)
(* (agent.go): once hidden it stays so, although the comment limit and the *)
(* hard gate each replace the set the other has left.                      *)
CommentStaysHidden == [][ "forgejo_comment" \in hidden => "forgejo_comment" \in hidden' ]_vars

(* No tool that writes starts to run for an event of an issue that was     *)
(* planning or blocked when the event was taken, unless its labels could   *)
(* not be read: not even in a session that started when it was open, or    *)
(* after the merge queue blocked an earlier event of the session.          *)
NoWorkWhileBlocked ==
  [][ ~worked /\ worked' => issue = "opened" \/ misread ]_vars

(* Failed turns, refused calls and warnings all use up turns: a session    *)
(* asks the model at most MaxTurns times for each of its events.           *)
TurnsBounded == turnCount <= MaxTurns * events

-----------------------------------------------------------------------------
(* Why they hold. Of the last answer p calls still want their results, and *)
(* nothing but results has been added to it; all others are complete.      *)
Wanting(ms, i, p) ==
  /\ p > 0 /\ ms[i].calls > 0
  /\ i + ms[i].calls = Len(ms) + p
  /\ \A j \in i + 1 .. Len(ms) : ms[j] = Tool

WellFormed(ms, p) ==
  /\ \A i \in 1..Len(ms) : ms[i].calls > 0 => Complete(ms, i) \/ Wanting(ms, i, p)
  /\ p > 0 => \E i \in 1..Len(ms) : Wanting(ms, i, p)

MessagesOK ==
  /\ at = "turn" => pending = 0
  /\ at # "waiting" => WellFormed(messages, pending)

(* The labels do not change for the loop before the event is done with.    *)
SeenOK == at # "waiting" => seen = issue \/ misread

(* The turns the events before this one may have used up, and its own.     *)
CountOK ==
  /\ at = "waiting" => TurnsBounded
  /\ at # "waiting" =>
       /\ events > 0
       /\ turnCount <= MaxTurns * (events - 1) + turn + (IF at = "tools" THEN 1 ELSE 0)

IInv == TypeOK /\ MessagesOK /\ SeenOK /\ CountOK
=============================================================================
