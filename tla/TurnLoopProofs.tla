--------------------------- MODULE TurnLoopProofs ---------------------------
(***************************************************************************)
(* Proofs about TurnLoop: the conversation stays well formed, hidden tools *)
(* stay hidden, blocked issues are not worked on and turns are bounded,    *)
(* for any number of turns, calls, notes and events and any compaction.    *)
(***************************************************************************)
EXTENDS TurnLoop, TLAPS

Message == [from : {"user", "tool", "assistant"}, calls : 0..MaxCalls]

LEMMA Messages ==
  /\ User \in Message /\ User.calls = 0 /\ User # Tool
  /\ Tool \in Message /\ Tool.calls = 0
  /\ \A n \in 1..MaxCalls : Assistant(n) \in Message /\ Assistant(n).calls = n /\ Assistant(n) # Tool
  BY LoopAssumption DEF Message, User, Tool, Assistant

LEMMA CallsAreNat ==
  ASSUME NEW ms \in Seq(Message)
  PROVE  \A i \in 1..Len(ms) : ms[i].calls \in Nat
  <1> SUFFICES ASSUME NEW i \in 1..Len(ms) PROVE ms[i].calls \in Nat
    OBVIOUS
  <1>1. ms[i] \in Message
    OBVIOUS
  <1>2. ms[i].calls \in 0..MaxCalls
    BY <1>1 DEF Message
  <1> QED BY <1>2, LoopAssumption

(* An answer keeps its results when what comes next is not one of them.    *)
LEMMA StaysComplete ==
  ASSUME NEW ms \in Seq(Message), NEW new \in Seq(Message), Len(new) >= Len(ms),
         \A j \in 1..Len(ms) : new[j] = ms[j],
         Len(new) > Len(ms) => new[Len(ms) + 1] # Tool,
         NEW i \in 1..Len(ms), Complete(ms, i)
  PROVE  Complete(new, i)
  <1> DEFINE n == ms[i].calls
  <1>1. n \in Nat /\ new[i].calls = n
    BY CallsAreNat
  <1>2. /\ i + n <= Len(ms)
        /\ \A j \in i + 1 .. i + n : ms[j] = Tool
        /\ i + n < Len(ms) => ms[i + n + 1] # Tool
    BY DEF Complete
  <1> HIDE DEF n
  <1>3. i + n <= Len(new)
    BY <1>1, <1>2
  <1>4. ASSUME NEW j \in i + 1 .. i + n PROVE new[j] = Tool
    <2>1. j \in 1..Len(ms)
      BY <1>1, <1>2
    <2> QED BY <1>2, <2>1
  <1>5. ASSUME i + n < Len(new) PROVE new[i + n + 1] # Tool
    <2>1. CASE i + n = Len(ms)
      BY <1>5, <2>1
    <2>2. CASE i + n < Len(ms)
      <3>1. i + n + 1 \in 1..Len(ms)
        BY <1>1, <2>2
      <3> QED BY <1>2, <2>2, <3>1
    <2> QED BY <1>1, <1>2, <2>1, <2>2
  <1> QED BY <1>1, <1>3, <1>4, <1>5 DEF Complete

-----------------------------------------------------------------------------
(* What becomes of a conversation that is well formed.                     *)

(* A message of the user is put at its end,                                *)
LEMMA AppendUser ==
  ASSUME NEW ms \in Seq(Message), WellFormed(ms, 0)
  PROVE  Append(ms, User) \in Seq(Message) /\ WellFormed(Append(ms, User), 0)
  <1> DEFINE new == Append(ms, User)
  <1>1. new \in Seq(Message) /\ Len(new) = Len(ms) + 1 /\ new[Len(ms) + 1] = User
    BY Messages
  <1>2. \A i \in 1..Len(ms) : new[i] = ms[i]
    OBVIOUS
  <1>3. \A i \in 1..Len(ms) : ms[i].calls \in Nat
    BY CallsAreNat
  <1> HIDE DEF new
  <1>4. ASSUME NEW i \in 1..Len(new), new[i].calls > 0 PROVE Complete(new, i)
    <2>1. i \in 1..Len(ms) /\ new[i] = ms[i]
      BY <1>1, <1>2, <1>4, Messages
    <2>2. Complete(ms, i)
      BY <1>4, <2>1 DEF WellFormed, Wanting
    <2> QED BY <1>1, <1>2, <2>1, <2>2, Messages, StaysComplete
  <1> QED BY <1>1, <1>4 DEF WellFormed, new

(* or an answer with n calls,                                              *)
LEMMA AppendAnswer ==
  ASSUME NEW ms \in Seq(Message), WellFormed(ms, 0), NEW n \in 1..MaxCalls
  PROVE  /\ Append(ms, Assistant(n)) \in Seq(Message)
         /\ WellFormed(Append(ms, Assistant(n)), n)
  <1> DEFINE new == Append(ms, Assistant(n))
  <1>1. new \in Seq(Message) /\ Len(new) = Len(ms) + 1 /\ new[Len(ms) + 1] = Assistant(n)
    BY Messages
  <1>2. \A i \in 1..Len(ms) : new[i] = ms[i]
    OBVIOUS
  <1>3. \A i \in 1..Len(ms) : ms[i].calls \in Nat
    BY CallsAreNat
  <1> HIDE DEF new
  <1>4. ASSUME NEW i \in 1..Len(ms), new[i].calls > 0 PROVE Complete(new, i)
    <2>1. Complete(ms, i)
      BY <1>2, <1>4 DEF WellFormed, Wanting
    <2> QED BY <1>1, <1>2, <2>1, Messages, StaysComplete
  <1>5. Wanting(new, Len(ms) + 1, n)
    BY <1>1, Messages DEF Wanting
  <1> QED BY <1>1, <1>4, <1>5 DEF WellFormed, new

(* or the result of one of the calls that want one.                        *)
LEMMA AppendResult ==
  ASSUME NEW ms \in Seq(Message), NEW p \in 1..MaxCalls, WellFormed(ms, p)
  PROVE  /\ Append(ms, Tool) \in Seq(Message)
         /\ WellFormed(Append(ms, Tool), p - 1)
  <1> DEFINE new == Append(ms, Tool)
  <1>1. new \in Seq(Message) /\ Len(new) = Len(ms) + 1 /\ new[Len(ms) + 1] = Tool
    BY Messages
  <1>2. \A i \in 1..Len(ms) : new[i] = ms[i]
    OBVIOUS
  <1>3. \A i \in 1..Len(ms) : ms[i].calls \in Nat
    BY CallsAreNat
  <1> HIDE DEF new
  <1>4. PICK q \in 1..Len(ms) : Wanting(ms, q, p)
    BY LoopAssumption DEF WellFormed
  <1>5. q + new[q].calls = Len(new) + (p - 1) /\ \A j \in q + 1 .. Len(new) : new[j] = Tool
    <2>1. q + ms[q].calls = Len(ms) + p /\ \A j \in q + 1 .. Len(ms) : ms[j] = Tool
      BY <1>4 DEF Wanting
    <2>2. \A j \in q + 1 .. Len(new) : new[j] = Tool
      <3> TAKE j \in q + 1 .. Len(new)
      <3>1. CASE j = Len(ms) + 1
        BY <1>1, <3>1
      <3>2. CASE j # Len(ms) + 1
        <4>1. j \in q + 1 .. Len(ms) /\ j \in 1..Len(ms)
          BY <1>1, <3>2
        <4> QED BY <1>2, <2>1, <4>1
      <3> QED BY <3>1, <3>2
    <2>3. ms[q].calls \in Nat /\ new[q] = ms[q]
      BY <1>2, <1>3
    <2> QED BY <1>1, <2>1, <2>2, <2>3
  <1>6. p = 1 => Complete(new, q)
    BY <1>1, <1>5 DEF Complete
  <1>7. p # 1 => Wanting(new, q, p - 1)
    BY <1>2, <1>4, <1>5 DEF Wanting
  <1>8. ASSUME NEW i \in 1..Len(new), new[i].calls > 0
        PROVE  Complete(new, i) \/ Wanting(new, i, p - 1)
    <2>1. i \in 1..Len(ms) /\ new[i] = ms[i]
      BY <1>1, <1>2, <1>8, Messages
    <2>2. CASE i = q
      BY <1>6, <1>7, <2>2
    <2>3. CASE i > q
      <3>1. ms[i] = Tool
        BY <1>4, <2>1, <2>3 DEF Wanting
      <3> QED BY <1>8, <2>1, <3>1, Messages
    <2>4. CASE i < q
      <3>1. ~Wanting(ms, i, p)
        BY <1>4, <2>4, Messages DEF Wanting
      <3>2. Complete(ms, i)
        BY <1>8, <2>1, <3>1 DEF WellFormed
      <3>3. ms[i].calls \in Nat /\ i + ms[i].calls <= Len(ms)
        BY <1>3, <2>1, <3>2 DEF Complete
      <3>4. \A j \in i + 1 .. i + ms[i].calls : ms[j] = Tool
        BY <3>2 DEF Complete
      <3>5. ms[q] # Tool
        BY <1>4, Messages DEF Wanting
      <3>6. i + ms[i].calls < q
        BY <2>4, <3>3, <3>4, <3>5
      <3>7. i + ms[i].calls < Len(ms) => ms[i + ms[i].calls + 1] # Tool
        BY <3>2 DEF Complete
      <3>8. PICK n \in Nat : n = ms[i].calls
        BY <3>3
      <3>9. i + n < q /\ i + n + 1 <= Len(ms) /\ i + n + 1 \in 1..Len(ms)
        BY <2>1, <3>6, <3>8
      <3>10. ASSUME NEW j \in i + 1 .. i + n PROVE new[j] = Tool
        <4>1. j \in 1..Len(ms)
          BY <3>9
        <4> QED BY <1>2, <3>4, <3>8, <4>1
      <3>11. new[i + n + 1] # Tool
        BY <1>2, <3>7, <3>8, <3>9
      <3>12. new[i].calls = n /\ i + n <= Len(new)
        BY <1>1, <2>1, <3>8, <3>9
      <3> QED BY <3>10, <3>11, <3>12 DEF Complete
    <2> QED BY <2>1, <2>2, <2>3, <2>4
  <1>9. p - 1 > 0 => \E i \in 1..Len(new) : Wanting(new, i, p - 1)
    BY <1>1, <1>7
  <1> QED BY <1>1, <1>8, <1>9 DEF WellFormed, new

(* Steering is put at its end,                                             *)
LEMMA AppendNotes ==
  ASSUME NEW ms \in Seq(Message), WellFormed(ms, 0), NEW n \in Nat
  PROVE  ms \o Notes(n) \in Seq(Message) /\ WellFormed(ms \o Notes(n), 0)
  <1> DEFINE new == ms \o Notes(n)
  <1>1. Notes(n) \in Seq(Message) /\ Len(Notes(n)) = n /\ \A i \in 1..n : Notes(n)[i] = User
    BY Messages DEF Notes
  <1>2. /\ new \in Seq(Message) /\ Len(new) = Len(ms) + n
        /\ \A i \in 1..Len(ms) : new[i] = ms[i]
        /\ \A i \in Len(ms) + 1 .. Len(new) : new[i] = User
    BY <1>1
  <1>3. \A i \in 1..Len(ms) : ms[i].calls \in Nat
    BY CallsAreNat
  <1> HIDE DEF new
  <1>4. ASSUME NEW i \in 1..Len(new), new[i].calls > 0 PROVE Complete(new, i)
    <2>1. i \in 1..Len(ms) /\ new[i] = ms[i]
      BY <1>2, <1>4, Messages
    <2>2. Complete(ms, i)
      BY <1>4, <2>1 DEF WellFormed, Wanting
    <2> QED BY <1>2, <2>1, <2>2, Messages, StaysComplete
  <1> QED BY <1>2, <1>4 DEF WellFormed, new

(* and all but its last messages are thrown away: an answer is kept with   *)
(* all its results or not at all, for results come after it.               *)
LEMMA Compacts ==
  ASSUME NEW ms \in Seq(Message), WellFormed(ms, 0)
  PROVE  Compact(ms) \in Seq(Message) /\ WellFormed(Compact(ms), 0)
  <1>1. CASE Len(ms) <= KeepMessages + 1
    BY <1>1 DEF Compact
  <1>2. CASE ~(Len(ms) <= KeepMessages + 1)
    <2> DEFINE gone == Len(ms) - KeepMessages
               rest == SubSeq(ms, gone + 1, Len(ms))
               new == <<User>> \o rest
    <2>1. gone \in Nat /\ gone > 1
      BY <1>2, LoopAssumption
    <2>2. /\ rest \in Seq(Message) /\ Len(rest) = Len(ms) - gone
          /\ \A i \in 1..Len(rest) : rest[i] = ms[gone + i]
      BY <2>1, LoopAssumption
    <2>3. Compact(ms) = new
      BY <1>2 DEF Compact
    <2> HIDE DEF rest
    <2>4. /\ new \in Seq(Message) /\ Len(new) = Len(ms) - gone + 1
          /\ new[1] = User
          /\ \A i \in 2..Len(new) : new[i] = ms[gone + i - 1]
      <3>1. <<User>> \in Seq(Message) /\ Len(<<User>>) = 1 /\ <<User>>[1] = User
        BY Messages
      <3> QED BY <2>1, <2>2, <3>1
    <2> HIDE DEF new, gone
    <2>5. \A i \in 1..Len(ms) : ms[i].calls \in Nat
      BY CallsAreNat
    <2>6. ASSUME NEW i \in 1..Len(new), new[i].calls > 0 PROVE Complete(new, i)
      <3> DEFINE k == gone + i - 1
      <3>1. i \in 2..Len(new) /\ k \in 1..Len(ms) /\ new[i] = ms[k]
        <4>1. i # 1
          BY <2>4, <2>6, Messages
        <4>2. i \in 2..Len(new) /\ k \in 1..Len(ms)
          BY <2>1, <2>4, <4>1
        <4> QED BY <2>4, <4>2
      <3>2. Complete(ms, k)
        BY <2>6, <3>1 DEF WellFormed, Wanting
      <3>3. ms[k].calls \in Nat
        BY <2>5, <3>1
      <3>4. PICK n \in Nat : n = ms[k].calls
        BY <3>3
      <3>5. /\ k + n <= Len(ms)
            /\ \A j \in k + 1 .. k + n : ms[j] = Tool
            /\ k + n < Len(ms) => ms[k + n + 1] # Tool
        BY <3>2, <3>4 DEF Complete
      <3>6. k = gone + i - 1 /\ gone \in Nat /\ i \in 2..Len(new) /\ Len(new) = Len(ms) - gone + 1
        BY <2>1, <2>4, <3>1
      <3> HIDE DEF k
      <3>7. i + n <= Len(new)
        BY <3>5, <3>6
      <3>8. ASSUME NEW j \in i + 1 .. i + n PROVE new[j] = Tool
        <4>1. gone + j - 1 \in k + 1 .. k + n /\ j \in 2..Len(new)
          BY <3>6, <3>7
        <4> QED BY <2>4, <3>5, <4>1
      <3>9. ASSUME i + n < Len(new) PROVE new[i + n + 1] # Tool
        <4>1. /\ i + n + 1 \in 2..Len(new) /\ k + n < Len(ms)
              /\ gone + (i + n + 1) - 1 = k + n + 1
          BY <3>6, <3>9
        <4> QED BY <2>4, <3>5, <4>1
      <3> QED BY <3>1, <3>4, <3>7, <3>8, <3>9 DEF Complete
    <2> QED BY <2>3, <2>4, <2>6 DEF WellFormed
  <1> QED BY <1>1, <1>2
(* Whatever a request may be made of is well formed when the conversation  *)
(* is.                                                                     *)
LEMMA ConversationsOK ==
  ASSUME messages \in Seq(Message), WellFormed(messages, 0), NEW ms \in Conversations
  PROVE  ms \in Seq(Message) /\ WellFormed(ms, 0)
  <1>1. \A v \in Verified : v \in Seq(Message) /\ WellFormed(v, 0)
    BY AppendUser DEF Verified
  <1>2. CASE ms \in Verified
    BY <1>1, <1>2
  <1>3. CASE ms \in {Compact(v) : v \in Verified}
    BY <1>1, <1>3, Compacts
  <1> QED BY <1>2, <1>3 DEF Conversations

-----------------------------------------------------------------------------
(* The steps that handle a call of the answer: each takes one call off, or *)
(* ends the event.                                                         *)
HandlesCall ==
  \/ LimitsComments \/ QueueBlocks
  \/ \E tool \in Tools : Refuses(tool) \/ Succeeds(tool) \/ Fails(tool)

LEMMA Steps ==
  Next => TakesEvent \/ RunFails \/ Concludes \/ AsksForTools \/ EndsTurn \/ HandlesCall
  BY DEF Next, Works, HandlesCall

LEMMA Handling ==
  ASSUME HandlesCall
  PROVE  Handles /\ (Returns \/ (GoesOn /\ issue' = issue))
  <1>1. CASE LimitsComments
    BY <1>1 DEF LimitsComments
  <1>2. CASE QueueBlocks
    <2>1. "forgejo_create_pr" \in Tools /\ Executes("forgejo_create_pr") /\ Returns
      BY <1>2 DEF QueueBlocks, Tools
    <2>2. \A tool \in Tools : Executes(tool) => Handles
      BY DEF Executes
    <2> QED BY <2>1, <2>2
  <1>3. ASSUME NEW tool \in Tools, Refuses(tool) \/ Succeeds(tool) \/ Fails(tool)
        PROVE  Handles /\ (Returns \/ (GoesOn /\ issue' = issue))
    BY <1>3 DEF Refuses, Succeeds, Fails, Executes
  <1> QED BY <1>1, <1>2, <1>3 DEF HandlesCall

-----------------------------------------------------------------------------
(* Types.                                                                  *)
LEMMA TypeInit == Init => TypeOK
  <1> SUFFICES ASSUME Init PROVE TypeOK
    OBVIOUS
  <1>1. messages \in Seq(Message)
    BY DEF Init
  <1>2. /\ turn \in 0 .. MaxTurns - 1 /\ errors \in 0..MaxErrors
        /\ events \in 0..MaxEvents /\ pending \in 0..MaxCalls
    BY LoopAssumption DEF Init
  <1> QED BY <1>1, <1>2 DEF Init, TypeOK, IssueStates, Message

LEMMA TypeOfExecution ==
  ASSUME TypeOK, NEW tool \in Tools, Executes(tool)
  PROVE  wrote' \in BOOLEAN /\ worked' \in BOOLEAN /\ hidden' \in SUBSET Tools
  BY DEF TypeOK, Executes

(* The variables a handled call changes besides those of Handling.         *)
LEMMA TypeOfCall ==
  ASSUME TypeOK, HandlesCall
  PROVE  /\ issue' \in IssueStates /\ hidden' \in SUBSET Tools
         /\ wrote' \in BOOLEAN /\ worked' \in BOOLEAN
         /\ comments' \in Nat /\ planned' \in BOOLEAN
  <1> USE DEF TypeOK, IssueStates
  <1>1. CASE LimitsComments
    BY <1>1 DEF LimitsComments, Tools
  <1>2. CASE QueueBlocks
    BY <1>2, TypeOfExecution DEF QueueBlocks, Tools
  <1>3. ASSUME NEW tool \in Tools, Refuses(tool) \/ Succeeds(tool) \/ Fails(tool)
        PROVE  /\ issue' \in IssueStates /\ hidden' \in SUBSET Tools
               /\ wrote' \in BOOLEAN /\ worked' \in BOOLEAN
               /\ comments' \in Nat /\ planned' \in BOOLEAN
    <2>1. CASE Refuses(tool)
      BY <2>1 DEF Refuses
    <2>2. CASE Succeeds(tool)
      BY <2>2, TypeOfExecution DEF Succeeds
    <2>3. CASE Fails(tool)
      BY <2>3, TypeOfExecution DEF Fails
    <2> QED BY <1>3, <2>1, <2>2, <2>3
  <1> QED BY <1>1, <1>2, <1>3 DEF HandlesCall

LEMMA TypeNext ==
  ASSUME TypeOK, MessagesOK, [Next]_vars
  PROVE  TypeOK'
  <1> USE LoopAssumption DEF setting, taken, session, gate, locals
  <1>0. messages \in Seq(Message)
    BY DEF TypeOK, Message
  <1>1. CASE TakesEvent
    <2>1. messages' \in Seq(Message)
      BY <1>1, Messages DEF TakesEvent, Context
    <2>2. analysis' \in {"unset", "on", "off"}
      BY <1>1 DEF TakesEvent, AnalysisRead, TypeOK
    <2>3. seen' \in IssueStates /\ misread' \in BOOLEAN
      BY <1>1 DEF TakesEvent, StateRead, IssueStates
    <2>4. /\ issue' \in IssueStates /\ events' \in 0..MaxEvents
          /\ turn' \in 0 .. MaxTurns - 1 /\ errors' \in 0..MaxErrors /\ pending' \in 0..MaxCalls
          /\ at' = "turn" /\ worked' = FALSE
      BY <1>1 DEF TakesEvent, TypeOK
    <2>5. UNCHANGED <<role, noMerge, planOnly, turnCount, wrote, comments, planned, hidden, gated>>
      BY <1>1 DEF TakesEvent
    <2> QED BY <2>1, <2>2, <2>3, <2>4, <2>5 DEF TypeOK, Message
  <1>2. CASE RunFails
    <2>1. CASE Returns
      BY <1>2, <2>1 DEF RunFails, Runs, Returns, TypeOK
    <2>2. CASE ~Returns
      <3>1. messages' \in {Append(ms, User) : ms \in Conversations}
        BY <1>2, <2>2 DEF RunFails
      <3>2. messages' \in Seq(Message)
        BY <1>0, <1>2, <3>1, ConversationsOK, Messages DEF RunFails, Runs, MessagesOK
      <3>3. /\ turn' = turn + 1 /\ at' = "turn" /\ ~LastTurn
            /\ errors' = errors + 1 /\ errors + 1 < MaxErrors /\ pending' = pending
        BY <1>2, <2>2 DEF RunFails, NextTurn
      <3> QED BY <1>2, <3>2, <3>3 DEF RunFails, Runs, LastTurn, TypeOK, Message
    <2> QED BY <2>1, <2>2
  <1>3. CASE Concludes
    BY <1>3 DEF Concludes, Runs, Returns, TypeOK
  <1>4. CASE AsksForTools
    <2>1. PICK ms \in Conversations, n \in 1..MaxCalls :
            messages' = Append(Reflected(ms), Assistant(n)) /\ pending' = n
      BY <1>4 DEF AsksForTools
    <2>2. Reflected(ms) \in Seq(Message)
      BY <1>0, <1>4, ConversationsOK, Messages DEF AsksForTools, Runs, MessagesOK, Reflected
    <2>3. messages' \in Seq(Message)
      BY <2>1, <2>2, Messages
    <2> QED BY <1>4, <2>1, <2>3 DEF AsksForTools, Runs, TypeOK, Message
  <1>5. CASE EndsTurn
    <2>1. gated' \in BOOLEAN /\ hidden' \in SUBSET Tools
      BY <1>5 DEF EndsTurn, TypeOK, Gated, Tools, GateFires
    <2>2. CASE LastTurn
      BY <1>5, <2>1, <2>2 DEF EndsTurn, Returns, TypeOK
    <2>3. CASE ~LastTurn
      <3>1. messages' \in Seq(Message)
        <4>1. PICK n \in 0..MaxNotes : messages' = messages \o Notes(n)
          BY <1>5, <2>3 DEF EndsTurn
        <4>2. pending = 0 /\ WellFormed(messages, pending)
          BY <1>5 DEF EndsTurn, MessagesOK
        <4> QED BY <1>0, <4>1, <4>2, AppendNotes
      <3> QED BY <1>5, <2>1, <2>3, <3>1 DEF EndsTurn, NextTurn, LastTurn, TypeOK, Message
    <2> QED BY <2>2, <2>3
  <1>6. CASE HandlesCall
    <2>1. Handles /\ (Returns \/ GoesOn)
      BY <1>6, Handling
    <2>2. messages' \in Seq(Message) /\ pending' \in 0..MaxCalls
      <3>1. CASE Returns
        BY <3>1 DEF Returns
      <3>2. CASE GoesOn
        BY <1>0, <2>1, <3>2, Messages DEF Handles, GoesOn, Answered, TypeOK
      <3> QED BY <2>1, <3>1, <3>2
    <2>3. /\ at' \in {"waiting", "turn", "tools"}
          /\ turn' \in 0 .. MaxTurns - 1 /\ errors' \in 0..MaxErrors
      BY <2>1 DEF Handles, Returns, GoesOn, TypeOK
    <2> QED BY <1>6, <2>1, <2>2, <2>3, TypeOfCall DEF Handles, TypeOK, Message
  <1>7. CASE UNCHANGED vars
    BY <1>7 DEF vars, TypeOK
  <1> QED BY <1>1, <1>2, <1>3, <1>4, <1>5, <1>6, <1>7, Steps
-----------------------------------------------------------------------------
(* The conversation.                                                       *)
LEMMA MessagesNext ==
  ASSUME TypeOK, MessagesOK, [Next]_vars
  PROVE  MessagesOK'
  <1> USE DEF setting, taken, session, gate, locals
  <1>0. messages \in Seq(Message)
    BY DEF TypeOK, Message
  <1>1. CASE TakesEvent
    <2>1. Len(Context) = 1 /\ Context[1] = User
      BY DEF Context
    <2>2. WellFormed(Context, 0)
      BY <2>1, Messages DEF WellFormed
    <2> QED BY <1>1, <2>2 DEF TakesEvent, MessagesOK
  <1>2. CASE RunFails
    <2>1. CASE Returns
      BY <2>1 DEF Returns, MessagesOK
    <2>2. CASE ~Returns
      <3>1. PICK ms \in Conversations : messages' = Append(ms, User)
        BY <1>2, <2>2 DEF RunFails
      <3>2. pending = 0 /\ pending' = pending /\ WellFormed(messages, pending)
        BY <1>2, <2>2 DEF RunFails, Runs, MessagesOK
      <3>3. WellFormed(messages', 0)
        BY <1>0, <3>1, <3>2, ConversationsOK, AppendUser
      <3> QED BY <3>2, <3>3 DEF MessagesOK
    <2> QED BY <2>1, <2>2
  <1>3. CASE Concludes
    BY <1>3 DEF Concludes, Returns, MessagesOK
  <1>4. CASE AsksForTools
    <2>1. PICK ms \in Conversations, n \in 1..MaxCalls :
            messages' = Append(Reflected(ms), Assistant(n)) /\ pending' = n
      BY <1>4 DEF AsksForTools
    <2>2. WellFormed(messages, 0) /\ at' = "tools"
      BY <1>4 DEF AsksForTools, Runs, MessagesOK
    <2>3. Reflected(ms) \in Seq(Message) /\ WellFormed(Reflected(ms), 0)
      BY <1>0, <2>2, ConversationsOK, AppendUser DEF Reflected
    <2>4. WellFormed(messages', n)
      BY <2>1, <2>3, AppendAnswer
    <2> QED BY <2>1, <2>2, <2>4 DEF MessagesOK
  <1>5. CASE EndsTurn
    <2>1. CASE LastTurn
      BY <1>5, <2>1 DEF EndsTurn, Returns, MessagesOK
    <2>2. CASE ~LastTurn
      <3>1. PICK n \in 0..MaxNotes : messages' = messages \o Notes(n)
        BY <1>5, <2>2 DEF EndsTurn
      <3>2. pending = 0 /\ pending' = pending /\ WellFormed(messages, pending)
        BY <1>5, <2>2 DEF EndsTurn, MessagesOK
      <3>3. WellFormed(messages', 0)
        BY <1>0, <3>1, <3>2, AppendNotes
      <3> QED BY <3>2, <3>3 DEF MessagesOK
    <2> QED BY <2>1, <2>2
  <1>6. CASE HandlesCall
    <2>1. Handles /\ (Returns \/ GoesOn)
      BY <1>6, Handling
    <2>2. CASE Returns
      BY <2>2 DEF Returns, MessagesOK
    <2>3. CASE GoesOn
      <3>1. /\ at = "tools" /\ at' = "tools" /\ pending \in 1..MaxCalls
            /\ pending' = pending - 1 /\ messages' = Append(messages, Tool)
        BY <2>1, <2>3, LoopAssumption DEF Handles, GoesOn, Answered, TypeOK
      <3>2. WellFormed(messages', pending')
        BY <1>0, <3>1, AppendResult DEF MessagesOK
      <3> QED BY <3>1, <3>2 DEF MessagesOK
    <2> QED BY <2>1, <2>2, <2>3
  <1>7. CASE UNCHANGED vars
    BY <1>7 DEF vars, MessagesOK
  <1> QED BY <1>1, <1>2, <1>3, <1>4, <1>5, <1>6, <1>7, Steps

(* The labels the event was taken with.                                    *)
LEMMA SeenNext ==
  ASSUME SeenOK, [Next]_vars
  PROVE  SeenOK'
  <1> USE DEF setting, taken, session, gate, locals
  <1>1. CASE TakesEvent
    BY <1>1 DEF TakesEvent, StateRead, SeenOK
  <1>2. CASE RunFails \/ Concludes \/ AsksForTools
    BY <1>2 DEF RunFails, Concludes, AsksForTools, Runs, SeenOK
  <1>3. CASE EndsTurn
    BY <1>3 DEF EndsTurn, SeenOK
  <1>4. CASE HandlesCall
    <2>1. Handles /\ (Returns \/ (GoesOn /\ issue' = issue))
      BY <1>4, Handling
    <2> QED BY <2>1 DEF Handles, Returns, GoesOn, SeenOK
  <1>5. CASE UNCHANGED vars
    BY <1>5 DEF vars, SeenOK
  <1> QED BY <1>1, <1>2, <1>3, <1>4, <1>5, Steps

(* The turns: u for this event, of which at most MaxTurns.                 *)
LEMMA Times ==
  ASSUME NEW e \in Nat
  PROVE  MaxTurns * (e - 1) + MaxTurns = MaxTurns * e /\ MaxTurns * e \in Nat
  BY LoopAssumption

Count(u) == turnCount <= MaxTurns * (events - 1) + u

LEMMA EventOver ==
  ASSUME TypeOK, events > 0, NEW u \in 0..MaxTurns, Count(u)
  PROVE  TurnsBounded
  <1> DEFINE m == MaxTurns * (events - 1)
  <1>1. m + MaxTurns = MaxTurns * events /\ m \in Int
    BY Times DEF TypeOK
  <1>2. turnCount <= m + u /\ u <= MaxTurns /\ MaxTurns \in Nat /\ turnCount \in Nat
    BY LoopAssumption DEF Count, TypeOK
  <1> HIDE DEF m
  <1> QED BY <1>1, <1>2 DEF TurnsBounded

LEMMA CountNext ==
  ASSUME TypeOK, TypeOK', CountOK, [Next]_vars
  PROVE  CountOK'
  <1> USE DEF setting, taken, session, gate, locals
  <1> DEFINE m == MaxTurns * (events - 1)
             busy == IF at = "tools" THEN 1 ELSE 0
  <1>0. /\ m \in Int /\ turnCount \in Nat /\ turn \in 0 .. MaxTurns - 1
        /\ MaxTurns \in Nat \ {0} /\ events \in Nat
    BY LoopAssumption DEF TypeOK
  <1>1. CASE TakesEvent
    <2>1. /\ turnCount' = turnCount /\ events' = events + 1 /\ turn' = 0
          /\ at' = "turn" /\ TurnsBounded
      BY <1>1 DEF TakesEvent, CountOK
    <2>2. events' - 1 = events
      BY <1>0, <2>1
    <2>3. turnCount' <= MaxTurns * (events' - 1) + 0
      BY <1>0, <2>1, <2>2 DEF TurnsBounded
    <2> QED BY <1>0, <2>1, <2>3 DEF CountOK
  <1>2. ASSUME at # "waiting", events' = events, turnCount' \in {turnCount, turnCount + 1},
               turnCount' = turnCount + 1 => at = "turn",
               \/ Returns
               \/ NextTurn /\ ~LastTurn
               \/ at' = "tools" /\ turn' = turn /\ (turnCount' = turnCount => at = "tools")
        PROVE  CountOK'
    <2>1. turnCount' <= m + turn + 1 /\ events > 0
      BY <1>0, <1>2 DEF CountOK
    <2>2. CASE Returns
      <3>1. m + MaxTurns = MaxTurns * events
        BY <1>0, Times
      <3>2. turnCount' <= MaxTurns * events
        BY <1>0, <2>1, <3>1, <1>2
      <3> QED BY <1>2, <2>2, <3>2 DEF Returns, CountOK, TurnsBounded
    <2>3. CASE NextTurn /\ ~LastTurn
      BY <1>0, <1>2, <2>1, <2>3 DEF NextTurn, CountOK
    <2>4. CASE at' = "tools" /\ turn' = turn
      BY <1>0, <1>2, <2>1, <2>4 DEF CountOK
    <2> QED BY <1>2, <2>2, <2>3, <2>4
  <1>3. CASE RunFails
    BY <1>2, <1>3 DEF RunFails, Runs
  <1>4. CASE Concludes
    BY <1>2, <1>4 DEF Concludes, Runs
  <1>5. CASE AsksForTools
    BY <1>0, <1>2, <1>5 DEF AsksForTools, Runs
  <1>6. CASE EndsTurn
    BY <1>0, <1>2, <1>6 DEF EndsTurn
  <1>7. CASE HandlesCall
    <2>1. Handles /\ (Returns \/ GoesOn)
      BY <1>7, Handling
    <2> QED BY <1>0, <1>2, <2>1 DEF Handles, GoesOn
  <1>8. CASE UNCHANGED vars
    BY <1>8 DEF vars, CountOK, TurnsBounded
  <1> QED BY <1>1, <1>3, <1>4, <1>5, <1>6, <1>7, <1>8, Steps

LEMMA Starts == Init => IInv
  <1> SUFFICES ASSUME Init PROVE IInv
    OBVIOUS
  <1>1. TypeOK
    BY TypeInit
  <1>2. MessagesOK /\ SeenOK
    BY DEF Init, MessagesOK, SeenOK
  <1>3. CountOK
    BY LoopAssumption DEF Init, CountOK, TurnsBounded
  <1> QED BY <1>1, <1>2, <1>3 DEF IInv

LEMMA Keeps == IInv /\ [Next]_vars => IInv'
  BY TypeNext, MessagesNext, SeenNext, CountNext DEF IInv

-----------------------------------------------------------------------------
(* The inductive invariant: types, a well-formed conversation, labels that *)
(* the loop does not see change, and the count of turns.                   *)
THEOREM Invariance == Spec => []IInv
  BY Starts, Keeps, PTL DEF Spec

(* Every variable keeps its type, whatever is compacted or appended.       *)
THEOREM TypeCorrect == Spec => []TypeOK
  <1>1. IInv => TypeOK
    BY DEF IInv
  <1> QED BY <1>1, Invariance, PTL

(* Whenever the model is asked, every call of every earlier answer has     *)
(* exactly one result (agent.go, ProcessEvent; context.go, Compact).       *)
THEOREM AllAnswered == Spec => []CallsAnswered
  <1>1. IInv => CallsAnswered
    <2> SUFFICES ASSUME IInv, at = "turn", NEW i \in DOMAIN messages, messages[i].calls > 0
                 PROVE  Complete(messages, i)
      BY DEF CallsAnswered
    <2>1. i \in 1..Len(messages)
      BY DEF IInv, TypeOK
    <2>2. WellFormed(messages, 0)
      BY DEF IInv, MessagesOK
    <2> QED BY <2>1, <2>2 DEF WellFormed, Wanting
  <1> QED BY <1>1, Invariance, PTL

(* A session asks the model at most MaxTurns times for each event.         *)
THEOREM BoundedTurns == Spec => []TurnsBounded
  <1>1. IInv => TurnsBounded
    <2> SUFFICES ASSUME IInv PROVE TurnsBounded
      OBVIOUS
    <2>1. CASE at = "waiting"
      BY <2>1 DEF IInv, CountOK
    <2>2. CASE at # "waiting"
      <3> DEFINE u == turn + (IF at = "tools" THEN 1 ELSE 0)
      <3>1. u \in 0..MaxTurns
        BY LoopAssumption DEF IInv, TypeOK
      <3>2. events > 0 /\ TypeOK
        BY <2>2 DEF IInv, CountOK
      <3>3. Count(u)
        BY <2>2, LoopAssumption DEF IInv, CountOK, Count, TypeOK
      <3> QED BY <3>1, <3>2, <3>3, EventOver
    <2> QED BY <2>1, <2>2
  <1> QED BY <1>1, Invariance, PTL

(* The comment tool, once taken out of the schema, is never put back:      *)
(* the two places that hide tools both hide it (agent.go; turn.go).        *)
THEOREM HiddenForGood == Spec => CommentStaysHidden
  <1>1. [Next]_vars => ("forgejo_comment" \in hidden => "forgejo_comment" \in hidden')
    <2> SUFFICES ASSUME [Next]_vars, "forgejo_comment" \in hidden
                 PROVE  "forgejo_comment" \in hidden'
      OBVIOUS
    <2> USE DEF setting, taken, session, gate, locals
    <2>1. CASE TakesEvent
      BY <2>1 DEF TakesEvent
    <2>2. CASE RunFails \/ Concludes \/ AsksForTools
      BY <2>2 DEF RunFails, Concludes, AsksForTools, Runs
    <2>3. CASE EndsTurn
      BY <2>3 DEF EndsTurn, Gated
    <2>4. CASE LimitsComments
      BY <2>4 DEF LimitsComments
    <2>5. CASE QueueBlocks
      <3>1. Executes("forgejo_create_pr")
        BY <2>5 DEF QueueBlocks
      <3> QED BY <3>1 DEF Executes
    <2>6. ASSUME NEW tool \in Tools, Refuses(tool) \/ Succeeds(tool) \/ Fails(tool)
          PROVE  hidden' = hidden
      BY <2>6 DEF Refuses, Succeeds, Fails, Executes
    <2>7. CASE UNCHANGED vars
      BY <2>7 DEF vars
    <2> QED BY <2>1, <2>2, <2>3, <2>4, <2>5, <2>6, <2>7, Steps DEF HandlesCall
  <1> QED BY <1>1, PTL DEF Spec, CommentStaysHidden

(* A tool that writes never starts for an event whose issue was planning   *)
(* or blocked, if its labels could be read (agent.go, enforceIssueState).  *)
THEOREM BlockedIsLeftAlone == Spec => NoWorkWhileBlocked
  <1>1. IInv /\ [Next]_vars => (~worked /\ worked' => issue = "opened" \/ misread)
    <2> SUFFICES ASSUME IInv, [Next]_vars, ~worked, worked'
                 PROVE  issue = "opened" \/ misread
      OBVIOUS
    <2> USE DEF setting, taken, session, gate, locals
    <2>1. ASSUME NEW tool \in Tools, Executes(tool) PROVE issue = "opened" \/ misread
      <3>1. tool \in Implementation /\ ~Forbidden(tool) /\ at = "tools"
        BY <2>1 DEF Executes, Handles
      <3>2. seen = "opened"
        BY <3>1 DEF Forbidden, IInv, TypeOK, IssueStates
      <3> QED BY <3>1, <3>2 DEF IInv, SeenOK
    <2>2. CASE TakesEvent
      BY <2>2 DEF TakesEvent
    <2>3. CASE RunFails \/ Concludes \/ AsksForTools
      BY <2>3 DEF RunFails, Concludes, AsksForTools, Runs
    <2>4. CASE EndsTurn
      BY <2>4 DEF EndsTurn
    <2>5. CASE LimitsComments
      BY <2>5 DEF LimitsComments
    <2>6. CASE QueueBlocks
      BY <2>1, <2>6 DEF QueueBlocks, Tools
    <2>7. ASSUME NEW tool \in Tools, Refuses(tool) \/ Succeeds(tool) \/ Fails(tool)
          PROVE  issue = "opened" \/ misread
      BY <2>1, <2>7 DEF Refuses, Succeeds, Fails
    <2>8. CASE UNCHANGED vars
      BY <2>8 DEF vars
    <2> QED BY <2>2, <2>3, <2>4, <2>5, <2>6, <2>7, <2>8, Steps DEF HandlesCall
  <1> QED BY <1>1, Invariance, PTL DEF Spec, NoWorkWhileBlocked
=============================================================================
