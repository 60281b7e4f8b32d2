------------------------- MODULE FederatorResponseProofs -------------------------
(***************************************************************************)
(* The text processor of Federator is a federated response in the sense of *)
(* FederatedResponse, every processor yields a well-formed document, and   *)
(* of the temporary files of a request only those of tasks that raised are *)
(* left: for any number of routes and threads.                             *)
(***************************************************************************)
EXTENDS FederatorProofs

\* Only the WFCatalog processor writes a footer.
FootOfList == pc = "foot" => Kind = "wfcatalog"

\* The invariant of the refinement.
RInv == IInv /\ JInv /\ FootOfList

\* No other step leads to the footer.
LEMMA FootInv == Spec => []RInv
<1>1. Init => FootOfList
  BY DEF Init, FootOfList
<1>2. ASSUME IInv, FootOfList, [Next]_vars PROVE FootOfList'
  <2> USE DEF FootOfList
  <2>1. CASE Worker
    BY <1>2, <2>1, WorkerQuiet DEF procVars
  <2>2. CASE Waiting
    BY <1>2, <2>2 DEF Waiting, WaitSkip, WaitFailed, WaitResubmit, Skip, DropFailed,
       Resubmit, WaitTooLarge, WaitNoData, Fail, WaitFound, WaitAgain, WaitTimeout
  <2>3. CASE Streaming
    BY <1>2, <2>3 DEF Streaming, Begin, StreamSkip, StreamFailed, StreamResubmit,
       Skip, DropFailed, Resubmit, StreamAgain, StreamTooLarge, Break, OpenFile,
       FinishFile, StreamFoot, StreamEnd
  <2>4. CASE Closing
    BY <1>2, <2>4 DEF Closing, Terminate, TerminateJoin, CallOnClose, Closed,
       TeardownRequest, procVars
  <2>5. CASE Environment \/ Expire \/ UNCHANGED vars
    BY <1>2, <2>5 DEF Environment, EarlyClose, ClientClose, StreamFault, Break, Expire,
       vars, procVars
  <2>6. QED
    BY <1>2, <2>1, <2>2, <2>3, <2>4, <2>5 DEF Next, Processor, Idle
<1>3. QED
  BY <1>1, <1>2, SpecInv, AnswerInv, PTL DEF Spec, RInv

\* The parts of a text response: those sent were handled with a 200, the open
\* ones are the routes not handled yet.
TextParts ==
    Kind = "text" =>
        /\ Range(results) = Routes /\ handled \subseteq Routes
        /\ Sent = {t \in handled : status[t] = "Ok"}
        /\ Response!Open = Routes \ handled
        /\ AllHandled <=> Routes \subseteq handled

\* Text never resubmits, and what it streams has been handled.
LEMMA TextPartsHold == RInv => TextParts
<1> SUFFICES ASSUME Kind = "text", RInv
             PROVE  /\ Range(results) = Routes /\ handled \subseteq Routes
                    /\ Sent = {t \in handled : status[t] = "Ok"}
                    /\ Response!Open = Routes \ handled
                    /\ AllHandled <=> Routes \subseteq handled
  BY DEF TextParts
<1> USE DEF RInv, JInv
<1>1. \A t \in handled : status[t] # "TooLarge"
  BY DEF HandledSettled, Resubmits
<1>2. Range(results) = Routes /\ handled \subseteq Routes
  BY <1>1 DEF SaaReplaces, HandledSettled
<1>3. \A t \in handled : status[t] = "Ok" => <<"data", t>> \in Range(out)
  BY DEF HandledStreamed, Range
<1>4. \A t \in Routes : <<"data", t>> \in Range(out) => t \in handled /\ status[t] = "Ok"
  BY DEF HandledStreamed, Range
<1>5. Sent = {t \in handled : status[t] = "Ok"}
  BY <1>2, <1>3, <1>4 DEF Sent
<1>6. Response!Open = Routes \ handled
  BY <1>2, <1>5 DEF Response!Open
<1>7. QED
  BY <1>2, <1>5, <1>6 DEF AllHandled

\* The states a step is between.
LEMMA TextPartsSpec == Spec => [](RInv /\ TextParts)
BY TextPartsHold, FootInv, PTL

\* Requests begin as a pending response.
LEMMA TextInit == Init => Response!Init
BY DEF Init, Phase, Sent, Range, Response!Init

\* A failed route is a lost part.
LEMMA TextDrop ==
    ASSUME Kind = "text", RInv, TextParts, RInv', TextParts',
           pc \in {"wait", "stream"}, DropFailed
    PROVE  Response!Next
<1> USE DEF workersIdle
<1>1. /\ Here \in Routes \ handled /\ handled' = handled \cup {Here}
      /\ UNCHANGED <<pc, answer, out>>
  BY ResultsAreTasks DEF DropFailed, Sees, RInv, TextParts
<1>2. Sent' = Sent /\ Here \notin Sent
  BY <1>1 DEF Sent, TextParts
<1>3. Phase \in {"pending", "streaming"} /\ Phase' = Phase
  <2>1. Live /\ answer \in {0, 200} /\ Live'
    BY <1>1, Walking DEF RInv, Live
  <2>2. QED
    BY <1>1, <2>1 DEF Phase
<1>4. Response!Lose
  BY <1>1, <1>2, <1>3 DEF Response!Lose, TextParts
<1>5. QED
  BY <1>4 DEF Response!Next

\* A stream that is left before its end has parts that are open.
LEMMA TextBreak ==
    ASSUME Kind = "text", RInv, TextParts,
           \/ pc = "stream" /\ Sees({"TooLarge"}) /\ Break
           \/ EarlyClose \/ ClientClose \/ StreamFault
    PROVE  Response!Next
<1> USE DEF workersIdle, RInv
<1>1. /\ Live /\ ~Live' /\ pc \in {"headers", "stream", "chunk"}
      /\ UNCHANGED <<answer, results, handled, out>>
  BY DEF Break, EarlyClose, ClientClose, StreamFault, Live, FootOfList
<1>2. answer = 200
  BY <1>1 DEF IInv, TypeOK, JInv, AnswerBacked
<1>3. ~AllHandled
  <2>1. CASE pc = "headers"
    <3>1. PICK t \in Range(results) : status[t] = "Ok"
      BY <1>2 DEF JInv, AnswerBacked
    <3>2. out = <<>>
      BY <2>1 DEF JInv, AnswerBacked
    <3>3. t \notin handled
      BY <3>1, <3>2 DEF JInv, HandledStreamed
    <3>4. QED
      BY <3>1, <3>3 DEF AllHandled
  <2>2. CASE pc = "stream"
    <3>1. Sees({"TooLarge"})
      BY <2>2 DEF EarlyClose, ClientClose, StreamFault
    <3>2. QED
      BY <3>1, ResultsAreTasks DEF Sees, AllHandled
  <2>3. CASE pc = "chunk"
    BY <2>3, ResultsAreTasks DEF IInv, ChunkIsReady, JInv, ChunkIsOpen, AllHandled
  <2>4. QED
    BY <1>1, <2>1, <2>2, <2>3
<1>4. Phase = "streaming" /\ Phase' = "broken" /\ Sent' = Sent
  BY <1>1, <1>2, <1>3 DEF Phase, AllHandled, Sent
<1>5. Response!Break
  BY <1>1, <1>4 DEF Response!Break
<1>6. QED
  BY <1>5 DEF Response!Next

\* The steps of _wait: a failure, a refusal or the first data.
LEMMA TextWaiting ==
    ASSUME Kind = "text", RInv, TextParts, RInv', TextParts', Waiting
    PROVE  [Response!Next]_(Response!vars)
<1> USE DEF workersIdle
<1>0. IInv /\ JInv /\ ~Resubmits /\ pc = "wait" /\ Phase = "pending"
  BY DEF RInv, Resubmits, Waiting, WaitSkip, WaitFailed, WaitResubmit, WaitTooLarge,
         WaitFound, WaitNoData, WaitAgain, WaitTimeout, Phase, JInv, AnswerBacked
<1>1. CASE WaitSkip \/ WaitAgain
  <2>1. UNCHANGED <<pc, answer, results, handled, out>>
    BY <1>1 DEF WaitSkip, WaitAgain, Skip
  <2>2. Phase' = Phase /\ Sent' = Sent
    BY <2>1 DEF Phase, Live, AllHandled, Sent
  <2>3. QED
    BY <2>1, <2>2 DEF Response!vars
<1>2. CASE WaitFailed
  <2>1. DropFailed
    BY <1>2 DEF WaitFailed
  <2>2. QED
    BY <1>0, <2>1, TextDrop
<1>3. CASE WaitResubmit
  BY <1>0, <1>3 DEF WaitResubmit, Resubmit
<1>4. ASSUME NEW code \in {204, 413}, answer' = code, code = 204 => AllHandled,
             UNCHANGED <<handled, out>>
      PROVE  Response!Next
  <2>1. Phase' = "refused"
    BY <1>4 DEF Phase
  <2>2. Sent' = Sent
    BY <1>4 DEF Sent
  <2>3. answer' = 204 => Response!Open = {}
    BY <1>4 DEF TextParts
  <2>4. Response!Refuse(answer')
    BY <1>0, <1>4, <2>1, <2>2, <2>3 DEF Response!Refuse
  <2>5. QED
    BY <1>4, <2>4 DEF Response!Next
<1>5. CASE WaitTooLarge \/ WaitNoData \/ WaitTimeout
  BY <1>4, <1>5 DEF WaitTooLarge, WaitNoData, WaitTimeout, Fail
<1>6. CASE WaitFound
  <2>1. Here \in Response!Open
    BY <1>0, <1>6, ResultsAreTasks DEF WaitFound, Sees, TextParts
  <2>2. Phase' = "streaming"
    BY <1>6 DEF WaitFound, Phase, Live
  <2>3. Sent' = Sent /\ UNCHANGED handled /\ answer' = 200
    BY <1>6 DEF WaitFound, Sent
  <2>4. Response!Accept
    BY <1>0, <2>1, <2>2, <2>3 DEF Response!Accept
  <2>5. QED
    BY <2>4 DEF Response!Next
<1>7. QED
  BY <1>1, <1>2, <1>3, <1>5, <1>6 DEF Waiting

\* The steps of __iter__.
LEMMA TextStreaming ==
    ASSUME Kind = "text", RInv, TextParts, RInv', TextParts', Streaming
    PROVE  [Response!Next]_(Response!vars)
<1> USE DEF workersIdle
<1>0. IInv /\ JInv /\ ~Resubmits /\ Live /\ answer = 200 /\ Phase = "streaming"
  <2>1. pc \in {"headers", "stream", "chunk"}
    BY DEF Resubmits, Streaming, Begin, StreamSkip, StreamFailed,
           StreamResubmit, StreamAgain, StreamTooLarge, OpenFile, FinishFile,
           StreamFoot, StreamEnd
  <2>2. answer = 200
    BY <2>1 DEF RInv, IInv, TypeOK, JInv, AnswerBacked
  <2>3. QED
    BY <2>1, <2>2 DEF RInv, Resubmits, Live, Phase
<1>1. CASE Begin \/ StreamSkip \/ StreamAgain \/ OpenFile
  <2>1. UNCHANGED <<answer, results, handled, status>> /\ Live'
    BY <1>1 DEF Begin, StreamSkip, StreamAgain, OpenFile, Skip, Live
  <2>2. Phase' = Phase /\ Sent' = Sent
    BY <1>0, <2>1 DEF Phase, TextParts
  <2>3. QED
    BY <2>1, <2>2 DEF Response!vars
<1>2. CASE StreamFailed
  <2>1. pc = "stream" /\ DropFailed
    BY <1>2 DEF StreamFailed
  <2>2. QED
    BY <1>0, <2>1, TextDrop
<1>3. CASE StreamResubmit \/ StreamFoot
  BY <1>0, <1>3 DEF StreamResubmit, Resubmit, StreamFoot
<1>4. CASE StreamTooLarge
  BY <1>4, TextBreak DEF StreamTooLarge
<1>5. ASSUME NEW n \in Sizes, FinishFile(n) PROVE Response!Next
  <2>1. /\ Here \in Routes \ handled /\ status[Here] = "Ok"
        /\ handled' = handled \cup {Here} /\ UNCHANGED <<answer, status>> /\ Live'
    BY <1>0, <1>5, ResultsAreTasks
       DEF FinishFile, IInv, ChunkIsReady, JInv, ChunkIsOpen, TextParts, Live
  <2>2. Sent' = Sent \cup {Here} /\ (handled \ Sent)' = handled \ Sent
    BY <2>1 DEF TextParts
  <2>3. Response!Send
    BY <1>0, <2>1, <2>2 DEF Phase, TextParts, Response!Send
  <2>4. QED
    BY <2>3 DEF Response!Next
<1>6. CASE StreamEnd
  <2>1. AllHandled /\ ~Live' /\ UNCHANGED <<answer, results, handled, out>>
    BY <1>6 DEF StreamEnd, Live
  <2>2. Phase' = "complete" /\ Sent' = Sent
    BY <1>0, <2>1 DEF Phase, AllHandled, Sent
  <2>3. Response!Open = {} /\ Sent # {}
    <3>1. PICK t \in Range(results) : status[t] = "Ok"
      BY <1>0 DEF JInv, AnswerBacked
    <3>2. t \in handled
      BY <2>1 DEF AllHandled
    <3>3. QED
      BY <2>1, <3>1, <3>2 DEF TextParts
  <2>4. Response!Complete
    BY <1>0, <2>1, <2>2, <2>3 DEF Response!Complete
  <2>5. QED
    BY <2>4 DEF Response!Next
<1>7. QED
  BY <1>1, <1>2, <1>3, <1>4, <1>5, <1>6 DEF Streaming

\* Workers, the clock and the ways out change nothing of the response.
LEMMA TextQuiet ==
    ASSUME Kind = "text", RInv, TextParts, RInv', TextParts',
           Worker \/ Closing \/ Expire \/ UNCHANGED vars
    PROVE  UNCHANGED Response!vars
<1>1. UNCHANGED <<answer, results, handled, out>>
  <2>1. CASE Worker
    BY <2>1, WorkerQuiet DEF RInv, procVars
  <2>2. CASE Closing \/ Expire \/ UNCHANGED vars
    BY <2>2 DEF Closing, Terminate, TerminateJoin, CallOnClose, Closed, TeardownRequest,
       Expire, vars, procVars, workerVars
  <2>3. QED
    BY <2>1, <2>2
<1>2. Live' <=> Live
  <2>1. CASE Worker
    BY <2>1, WorkerQuiet DEF RInv, procVars, Live
  <2>2. CASE Closing
    BY <2>2 DEF Closing, Terminate, TerminateJoin, CallOnClose, Closed, TeardownRequest,
       procVars, Live
  <2>3. CASE Expire \/ UNCHANGED vars
    BY <2>3 DEF Expire, vars, procVars, Live
  <2>4. QED
    BY <2>1, <2>2, <2>3
<1>3. Phase' = Phase /\ Sent' = Sent
  BY <1>1, <1>2 DEF Phase, AllHandled, Sent
<1>4. QED
  BY <1>1, <1>3 DEF Response!vars

\* The text processor keeps the promises of FederatedResponse: no route is sent
\* twice, "no data" is said only when all have failed, and a response completes
\* only when every route was sent or has failed.
THEOREM TextImplementsResponse == ASSUME Kind = "text" PROVE Spec => Implements
<1>1. ASSUME RInv, TextParts, RInv', TextParts', [Next]_vars
      PROVE  [Response!Next]_(Response!vars)
  <2>1. CASE Environment
    BY <1>1, <2>1, TextBreak DEF Environment
  <2>2. CASE Processor
    BY <1>1, <2>2, TextWaiting, TextStreaming, TextQuiet DEF Processor
  <2>3. QED
    BY <1>1, <2>1, <2>2, TextQuiet DEF Next, Idle
<1>2. QED
  BY <1>1, TextInit, TextPartsSpec, PTL DEF Spec, Implements, Response!Spec

-----------------------------------------------------------------------------
(* The format of what is yielded.  The JSON list of wfcatalog is closed once *)
(* every result is handled; it has been opened by then, because a response   *)
(* is begun only on a result with a 200, which is streamed before.           *)

\* Endpoints that answer 200 send data.  A text or JSON response that begins
\* with an empty payload repeats its head, as Lead follows the sizes.
NoEmptyPayload == Kind = "raw" \/ 0 \notin Sizes

\* Between two payloads, and before the first one.
Between == pc \in {"wait", "headers", "stream"}

\* The footer ends the walk.
FootIsLast == Between \/ pc = "chunk" => \A i \in DOMAIN out : out[i][1] # "foot"

\* The sizes tell whether the head has been yielded.
SizedIsStarted ==
    Kind # "raw" => /\ Between => (sized <=> out # <<>>)
                    /\ pc = "chunk" => out # <<>>

\* Every payload of the list comes after a head or a separator.
ListAlternates ==
    Kind = "wfcatalog" => /\ Between => Len(out) % 2 = 0
                          /\ pc = "chunk" => Len(out) % 2 = 1

FormatInv == WellFormedOut /\ FootIsLast /\ SizedIsStarted /\ ListAlternates

\* Nothing has been yielded yet.
LEMMA FormatInit == Init => FormatInv
BY DEF Init, FormatInv, WellFormedOut, FootIsLast, SizedIsStarted, ListAlternates,
       Between

\* A step that yields nothing.
LEMMA FormatQuiet ==
    ASSUME FormatInv,
           UNCHANGED <<out, sized>>,
           Between \/ pc = "chunk" \/ UNCHANGED <<results, handled>>,
           Between' => Between,
           pc' = "chunk" => pc = "chunk"
    PROVE  FormatInv'
<1>1. WellFormedOut'
  <2>1. CASE Between \/ pc = "chunk"
    BY <2>1 DEF FormatInv, FootIsLast, WellFormedOut
  <2>2. CASE UNCHANGED <<results, handled>>
    BY <2>2 DEF FormatInv, WellFormedOut, AllHandled
  <2>3. QED
    BY <2>1, <2>2
<1>2. FootIsLast' /\ SizedIsStarted' /\ ListAlternates'
  BY DEF FormatInv, FootIsLast, SizedIsStarted, ListAlternates
<1>3. QED
  BY <1>1, <1>2 DEF FormatInv

\* One more item at the end of what has been yielded.
LEMMA OneMore ==
    ASSUME TypeOK, NEW item, out' = Append(out, item)
    PROVE  /\ Len(out) \in Nat /\ Len(out') = Len(out) + 1
           /\ DOMAIN out = 1 .. Len(out) /\ DOMAIN out' = 1 .. (Len(out) + 1)
           /\ \A i \in DOMAIN out : out'[i] = out[i]
           /\ out'[Len(out) + 1] = item
BY DEF TypeOK

\* A payload begins with what it takes in front of it.
LEMMA FormatOpen == ASSUME IInv, FormatInv, OpenFile PROVE FormatInv'
<1>0. TypeOK /\ Kind \in {"raw", "wfcatalog", "text"}
  BY ConstantsAssumption DEF IInv
<1>1. pc = "stream" /\ pc' = "chunk" /\ out' = out \o Lead
  BY DEF OpenFile
<1>2. CASE Lead = <<>>
  <2>1. out' = out
    BY <1>0, <1>1, <1>2 DEF TypeOK
  <2>2. Kind # "wfcatalog" /\ (Kind # "raw" => out # <<>>)
    BY <1>1, <1>2 DEF Lead, FormatInv, SizedIsStarted, Between
  <2>3. QED
    BY <1>1, <2>1, <2>2 DEF FormatInv, WellFormedOut, FootIsLast, SizedIsStarted,
                            ListAlternates, Between
<1>3. CASE Lead # <<>>
  <2>1. PICK c \in {"sep", "head"} : Lead = << <<c, 0>> >> /\ (c = "sep" <=> sized)
    <3>1. CASE sized
      BY <1>0, <1>3, <3>1 DEF Lead
    <3>2. CASE ~sized
      BY <1>0, <1>3, <3>2 DEF Lead
    <3>3. QED
      BY <3>1, <3>2
  <2>2. Kind \in {"wfcatalog", "text"} /\ (Kind = "text" => c = "head")
    BY <1>0, <1>3, <2>1 DEF Lead
  <2>3. out' = Append(out, <<c, 0>>)
    BY <1>0, <1>1, <2>1 DEF TypeOK
  <2>4. c = "head" <=> out = <<>>
    BY <1>1, <2>1, <2>2 DEF FormatInv, SizedIsStarted, Between
  <2>5. c = "head" <=> Len(out) = 0
    BY <1>0, <2>4 DEF TypeOK
  <2>6. Kind = "wfcatalog" => Len(out) % 2 = 0
    BY <1>1 DEF FormatInv, ListAlternates, Between
  <2>7. \A i \in DOMAIN out' : i \in DOMAIN out \/ i = Len(out) + 1
    BY <1>0, <2>3, OneMore
  <2>8. Kind = "wfcatalog" => Len(out') % 2 = 1
    BY <1>0, <2>3, <2>6, OneMore
  <2>9. out' # <<>>
    BY <1>0, <2>3, OneMore
  <2>10. FootIsLast'
    BY <1>0, <1>1, <2>3, <2>7, OneMore DEF FormatInv, FootIsLast, Between
  <2>11. WellFormedOut'
    <3>1. ASSUME Kind = "text", NEW i \in DOMAIN out'
          PROVE  out'[i][1] = "head" <=> i = 1
      BY <1>0, <2>2, <2>3, <2>5, <2>7, <3>1, OneMore DEF FormatInv, WellFormedOut
    <3>2. ASSUME Kind = "wfcatalog", NEW i \in DOMAIN out'
          PROVE  /\ out'[i][1] = "head" <=> i = 1
                 /\ out'[i][1] = "data" <=> i % 2 = 0
      <4>1. CASE i \in DOMAIN out
        BY <1>0, <2>3, <3>2, <4>1, OneMore DEF FormatInv, WellFormedOut
      <4>2. CASE i = Len(out) + 1
        BY <1>0, <2>3, <2>5, <2>6, <3>2, <4>2, OneMore
      <4>3. QED
        BY <2>7, <4>1, <4>2
    <3>3. QED
      BY <1>1, <2>2, <2>10, <3>1, <3>2 DEF WellFormedOut, FootIsLast
  <2>12. QED
    BY <1>1, <2>2, <2>8, <2>9, <2>10, <2>11
       DEF FormatInv, SizedIsStarted, ListAlternates, Between
<1>4. QED
  BY <1>2, <1>3

\* A payload that is no empty one.
LEMMA FormatFinish ==
    ASSUME NoEmptyPayload, IInv, FormatInv, NEW n \in Sizes, FinishFile(n)
    PROVE  FormatInv'
<1>0. TypeOK /\ Kind \in {"raw", "wfcatalog", "text"}
  BY ConstantsAssumption DEF IInv
<1>1. pc = "chunk" /\ pc' = "stream" /\ out' = Append(out, <<"data", Here>>)
  BY DEF FinishFile
<1>2. Kind # "raw" => sized'
  BY DEF FinishFile, NoEmptyPayload
<1>3. out' # <<>> /\ (Kind # "raw" => Len(out) # 0)
  BY <1>0, <1>1, OneMore DEF FormatInv, SizedIsStarted, TypeOK
<1>4. Kind = "wfcatalog" => Len(out) % 2 = 1
  BY <1>1 DEF FormatInv, ListAlternates
<1>5. \A i \in DOMAIN out' : i \in DOMAIN out \/ i = Len(out) + 1
  BY <1>0, <1>1, OneMore
<1>6. FootIsLast'
  BY <1>0, <1>1, <1>5, OneMore DEF FormatInv, FootIsLast, Between
<1>7. Kind = "wfcatalog" => Len(out') % 2 = 0
  BY <1>0, <1>1, <1>4, OneMore
<1>8. WellFormedOut'
  <2>1. ASSUME Kind = "raw", NEW i \in DOMAIN out' PROVE out'[i][1] = "data"
    BY <1>0, <1>1, <1>5, <2>1, OneMore DEF FormatInv, WellFormedOut
  <2>2. ASSUME Kind = "text", NEW i \in DOMAIN out'
        PROVE  out'[i][1] = "head" <=> i = 1
    BY <1>0, <1>1, <1>3, <1>5, <2>2, OneMore DEF FormatInv, WellFormedOut
  <2>3. ASSUME Kind = "wfcatalog", NEW i \in DOMAIN out'
        PROVE  /\ out'[i][1] = "head" <=> i = 1
               /\ out'[i][1] = "data" <=> i % 2 = 0
    <3>1. CASE i \in DOMAIN out
      BY <1>0, <1>1, <2>3, <3>1, OneMore DEF FormatInv, WellFormedOut
    <3>2. CASE i = Len(out) + 1
      <4>1. i % 2 = 0 /\ i # 1
        BY <1>0, <1>1, <1>3, <1>4, <2>3, <3>2, OneMore
      <4>2. out'[i] = <<"data", Here>>
        BY <1>0, <1>1, <3>2, OneMore
      <4>3. QED
        BY <4>1, <4>2
    <3>3. QED
      BY <1>5, <3>1, <3>2
  <2>4. QED
    BY <1>0, <1>1, <1>6, <2>1, <2>2, <2>3 DEF WellFormedOut, FootIsLast, Between
<1>9. QED
  BY <1>1, <1>2, <1>3, <1>6, <1>7, <1>8
     DEF FormatInv, SizedIsStarted, ListAlternates, Between

\* The list is closed after the last result; by then it has been opened.
LEMMA FormatFoot == ASSUME IInv, JInv, FormatInv, StreamFoot PROVE FormatInv'
<1>0. TypeOK
  BY DEF IInv
<1>1. /\ Kind = "wfcatalog" /\ pc = "stream" /\ pc' = "foot" /\ AllHandled
      /\ out' = Append(out, <<"foot", 0>>) /\ UNCHANGED <<results, handled>>
  BY DEF StreamFoot
<1>2. PICK t \in Range(results) : status[t] = "Ok"
  <2>1. answer = 200
    BY <1>0, <1>1, Walking DEF JInv, AnswerBacked
  <2>2. QED
    BY <2>1 DEF JInv, AnswerBacked
<1>3. PICK i \in DOMAIN out : out[i] = <<"data", t>>
  BY <1>1, <1>2 DEF AllHandled, JInv, HandledStreamed
<1>4. Len(out) # 0 /\ Len(out) % 2 = 0
  BY <1>0, <1>1, <1>3 DEF TypeOK, FormatInv, ListAlternates, Between
<1>5. \A j \in DOMAIN out' : j \in DOMAIN out \/ j = Len(out) + 1
  BY <1>0, <1>1, OneMore
<1>6. ASSUME NEW j \in DOMAIN out'
      PROVE  /\ out'[j][1] = "head" <=> j = 1
             /\ out'[j][1] = "data" <=> j % 2 = 0
             /\ out'[j][1] = "foot" => j = Len(out')
  <2>1. CASE j \in DOMAIN out
    BY <1>0, <1>1, <2>1, OneMore DEF FormatInv, WellFormedOut, FootIsLast, Between
  <2>2. CASE j = Len(out) + 1
    <3>1. j % 2 # 0 /\ j # 1 /\ j = Len(out')
      BY <1>0, <1>1, <1>4, <2>2, OneMore
    <3>2. out'[j] = <<"foot", 0>>
      BY <1>0, <1>1, <2>2, OneMore
    <3>3. QED
      BY <3>1, <3>2
  <2>3. QED
    BY <1>5, <2>1, <2>2
<1>7. AllHandled'
  BY <1>1 DEF AllHandled
<1>8. WellFormedOut'
  BY <1>1, <1>6, <1>7 DEF WellFormedOut
<1>9. QED
  BY <1>1, <1>8 DEF FormatInv, FootIsLast, SizedIsStarted, ListAlternates, Between

\* All other steps of the processor yield nothing.
LEMMA FormatNext ==
    ASSUME NoEmptyPayload, IInv, JInv, FormatInv, [Next]_vars
    PROVE  FormatInv'
<1> USE DEF Between
<1>1. CASE Worker
  BY <1>1, WorkerQuiet, FormatQuiet DEF procVars
<1>2. CASE Waiting
  BY <1>2, FormatQuiet DEF Waiting, WaitSkip, WaitFailed, WaitResubmit, Skip, DropFailed,
     Resubmit, WaitTooLarge, WaitNoData, Fail, WaitFound, WaitAgain, WaitTimeout
<1>3. CASE Begin \/ StreamSkip \/ StreamFailed \/ StreamResubmit \/ StreamAgain
           \/ StreamTooLarge \/ StreamEnd
  BY <1>3, FormatQuiet DEF Begin, StreamSkip, StreamFailed, StreamResubmit, Skip,
     DropFailed, Resubmit, StreamAgain, StreamTooLarge, Break, StreamEnd
<1>4. CASE Streaming
  BY <1>3, <1>4, FormatOpen, FormatFinish, FormatFoot DEF Streaming
<1>5. CASE Closing
  BY <1>5, FormatQuiet DEF Closing, Terminate, TerminateJoin, CallOnClose, Closed,
     TeardownRequest, procVars
<1>6. CASE Environment \/ Expire \/ UNCHANGED vars
  BY <1>6, FormatQuiet DEF Environment, EarlyClose, ClientClose, StreamFault, Break,
     Expire, vars, procVars
<1>7. QED
  BY <1>1, <1>2, <1>4, <1>5, <1>6 DEF Next, Processor, Idle

\* What any processor has yielded at any time is the beginning of a well-formed
\* document: payloads only, or one head and payloads, or a JSON list whose
\* elements are separated and whose end follows the last of all results.
THEOREM OutputWellFormed == ASSUME NoEmptyPayload PROVE Spec => []WellFormedOut
<1>1. IInv /\ JInv /\ FormatInv /\ [Next]_vars => FormatInv'
  BY FormatNext
<1>2. FormatInv => WellFormedOut
  BY DEF FormatInv
<1>3. QED
  BY <1>1, <1>2, FormatInit, SpecInv, AnswerInv, PTL DEF Spec

-----------------------------------------------------------------------------
(* The temporary files a request leaves behind.                              *)

\* Every task a worker has or had is in the list of results.
Submitted == \A t \in Tasks : task[t] # "absent" => t \in Range(results)

\* Files are opened by tasks that have begun.
FilesBegun == \A t \in files : task[t] \notin {"absent", "queued"}

\* The processor never handles a task that was torn down.
NoTeapot == \A t \in handled : status[t] # "Torn"

\* The file of a result is removed when it has been streamed ...
StreamedGone ==
    ~KeepsErrors => \A t \in handled : status[t] = "Ok" => t \notin files

\* ... and that of an endpoint error by its task.
ErrorsGone ==
    ~KeepsErrors =>
        \A t \in files : task[t] # "download" =>
                             status[t] \in {"Ok", "TaskError", "Torn"}

FilesInv == Submitted /\ FilesBegun /\ NoTeapot /\ StreamedGone /\ ErrorsGone

\* Routes are submitted, nothing has begun.
LEMMA FilesInit == Init => FilesInv
<1> SUFFICES ASSUME Init PROVE FilesInv
  OBVIOUS
<1>1. Range(results) = Routes
  BY DEF Init, Range, Routes
<1>2. QED
  BY <1>1 DEF Init, FilesInv, Submitted, FilesBegun, NoTeapot, StreamedGone, ErrorsGone

\* A step of task t keeps the invariant if it opens no file but its own and
\* leaves none behind with an endpoint error.
LEMMA FilesWorkerStep ==
    ASSUME IInv, JInv, FilesInv,
           NEW t \in Tasks, NEW from \in {"queued", "download", "guard", "returned"},
           NEW to \in Stages \ {"absent", "queued"}, NEW code \in Codes,
           Step(t, from, to, code),
           files' \subseteq files \cup {t},
           ~KeepsErrors /\ t \in files' /\ to # "download" =>
               code \in {"Ok", "TaskError", "Torn"}
    PROVE  FilesInv'
<1> USE DEF Step, procVars
<1>1. /\ \A u \in Tasks \ {t} : task'[u] = task[u] /\ status'[u] = status[u]
      /\ task'[t] = to /\ status'[t] = code /\ task[t] = from
      /\ UNCHANGED <<results, handled>>
  BY DEF IInv, TypeOK
<1>2. \A u \in handled : u \in Tasks \ {t}
  BY <1>1, ResultsAreTasks DEF JInv, HandledSettled, IsReady
<1>3. Submitted'
  BY <1>1 DEF FilesInv, Submitted
<1>4. files \subseteq Tasks
  BY DEF IInv, TypeOK
<1>5. FilesBegun'
  BY <1>1, <1>4 DEF FilesInv, FilesBegun
<1>6. NoTeapot' /\ StreamedGone'
  BY <1>1, <1>2 DEF FilesInv, NoTeapot, StreamedGone
<1>7. ErrorsGone'
  BY <1>1, <1>4 DEF FilesInv, ErrorsGone
<1>8. QED
  BY <1>3, <1>5, <1>6, <1>7 DEF FilesInv

\* What the workers do to files.
LEMMA FilesWorker == ASSUME IInv, JInv, FilesInv, Worker PROVE FilesInv'
<1> USE DEF Stages, Codes, Failures
<1>1. CASE TaskRefuse \/ TaskOverBudget \/ TaskDownload
  <2>1. Head(queue) \in Tasks
    BY <1>1, HeadIsTask DEF TaskRefuse, TaskOverBudget, TaskDownload, CanTake, IInv
  <2>2. CASE TaskRefuse
    BY <2>1, <2>2, FilesWorkerStep DEF TaskRefuse
  <2>3. CASE TaskOverBudget
    <3>1. Head(queue) \notin files
      BY <2>1, <2>3 DEF TaskOverBudget, Step, FilesInv, FilesBegun
    <3>2. QED
      BY <2>1, <2>3, <3>1, FilesWorkerStep DEF TaskOverBudget
  <2>4. CASE TaskDownload
    BY <2>1, <2>4, FilesWorkerStep DEF TaskDownload
  <2>5. QED
    BY <1>1, <2>2, <2>3, <2>4
<1>2. ASSUME NEW t \in Tasks, TaskOk(t) PROVE FilesInv'
  BY <1>2, FilesWorkerStep DEF TaskOk
<1>3. ASSUME NEW t \in Tasks, TaskError(t) PROVE FilesInv'
  <2>1. PICK code \in {"TooLarge", "EndpointError"} :
            Step(t, "download", "guard", code)
    BY <1>3 DEF TaskError
  <2>2. files' \subseteq files /\ (~KeepsErrors => t \notin files')
    BY <1>3 DEF TaskError
  <2>3. QED
    BY <2>1, <2>2, FilesWorkerStep
<1>4. ASSUME NEW t \in Tasks, SaaError(t) PROVE FilesInv'
  <2>1. files' \subseteq files
    BY <1>4 DEF SaaError
  <2>2. QED
    BY <1>4, <2>1, FilesWorkerStep DEF SaaError
<1>5. ASSUME NEW t \in Tasks, TaskCrash(t) PROVE FilesInv'
  BY <1>5, FilesWorkerStep DEF TaskCrash
<1>6. ASSUME NEW t \in Tasks, GuardExit(t) PROVE FilesInv'
  <2>1. files' \subseteq files /\ status[t] \in Codes /\ task[t] = "guard"
    BY <1>6 DEF GuardExit, Step, IInv, TypeOK
  <2>2. ~KeepsErrors /\ t \in files => status[t] \in {"Ok", "TaskError", "Torn"}
    BY <2>1 DEF FilesInv, ErrorsGone
  <2>3. PICK code \in {status[t], "Torn"} : Step(t, "guard", "returned", code)
    BY <1>6 DEF GuardExit
  <2>4. QED
    BY <2>1, <2>2, <2>3, FilesWorkerStep
<1>7. ASSUME NEW t \in Tasks, Deliver(t) PROVE FilesInv'
  <2>1. /\ Step(t, "returned", "ready", status[t]) /\ files' = files
        /\ task[t] = "returned" /\ status[t] \in Codes
    BY <1>7 DEF Deliver, Step, IInv, TypeOK
  <2>2. ~KeepsErrors /\ t \in files => status[t] \in {"Ok", "TaskError", "Torn"}
    BY <2>1 DEF FilesInv, ErrorsGone
  <2>3. QED
    BY <2>1, <2>2, FilesWorkerStep
<1>8. QED
  BY <1>1, <1>2, <1>3, <1>4, <1>5, <1>6, <1>7 DEF Worker

\* A step that moves no task, handles no result and opens no file.
LEMMA FilesShrink ==
    ASSUME FilesInv, UNCHANGED <<task, status, results, handled>>,
           files' \subseteq files
    PROVE  FilesInv'
<1>1. Submitted' /\ FilesBegun' /\ NoTeapot'
  BY DEF FilesInv, Submitted, FilesBegun, NoTeapot
<1>2. StreamedGone' /\ ErrorsGone'
  BY DEF FilesInv, StreamedGone, ErrorsGone
<1>3. QED
  BY <1>1, <1>2 DEF FilesInv

\* One result of a pass.
LEMMA FilesPass ==
    ASSUME IInv, JInv, FilesInv, pc \in {"wait", "stream"},
           Skip \/ DropFailed \/ Resubmit
    PROVE  FilesInv'
<1> USE DEF workersIdle
<1>1. CASE Skip
  BY <1>1, FilesShrink DEF Skip
<1>2. CASE DropFailed
  <2>1. /\ Here \in Tasks /\ status[Here] \in Failures \ {"Torn"}
        /\ handled' = handled \cup {Here}
        /\ UNCHANGED <<task, status, results, files>>
    BY <1>2, ResultsAreTasks, Walking DEF DropFailed, Sees
  <2>2. Submitted' /\ FilesBegun' /\ ErrorsGone'
    BY <2>1 DEF FilesInv, Submitted, FilesBegun, ErrorsGone
  <2>3. NoTeapot' /\ StreamedGone'
    BY <2>1 DEF FilesInv, NoTeapot, StreamedGone, Failures
  <2>4. QED
    BY <2>2, <2>3 DEF FilesInv
<1>3. CASE Resubmit
  <2>1. /\ InPass /\ Here \in Tasks /\ status[Here] = "TooLarge" /\ Here \notin handled
        /\ handled' = handled \cup {Here} /\ results' = Append(results, SaaOf(Here))
        /\ task' = [task EXCEPT ![SaaOf(Here)] = "queued"]
        /\ UNCHANGED <<status, files>>
    BY <1>3, ResultsAreTasks DEF Resubmit, Sees
  <2>2. Here \in Routes /\ SaaOf(Here) \in Tasks
    BY <2>1, TaskIds DEF IInv, TooLargeIsRoute
  <2>3. Range(results') = Range(results) \cup {SaaOf(Here)}
    BY <2>1, <2>2, RangeOfAppend DEF IInv, TypeOK
  <2>4. SaaOf(Here) \notin Range(results)
    BY <2>1, <2>2 DEF JInv, SaaReplaces
  <2>5. task[SaaOf(Here)] = "absent" /\ SaaOf(Here) \notin files
    BY <2>2, <2>4 DEF FilesInv, Submitted, FilesBegun
  <2>6. \A u \in Tasks \ {SaaOf(Here)} : task'[u] = task[u]
    BY <2>1 DEF IInv, TypeOK
  <2>7. \A u \in files : u \in Tasks \ {SaaOf(Here)}
    BY <2>5 DEF IInv, TypeOK
  <2>8. Submitted'
    BY <2>3, <2>6 DEF FilesInv, Submitted
  <2>9. FilesBegun' /\ ErrorsGone'
    BY <2>1, <2>6, <2>7 DEF FilesInv, FilesBegun, ErrorsGone
  <2>10. NoTeapot' /\ StreamedGone'
    BY <2>1 DEF FilesInv, NoTeapot, StreamedGone
  <2>11. QED
    BY <2>8, <2>9, <2>10 DEF FilesInv
<1>4. QED
  BY <1>1, <1>2, <1>3

\* A streamed file is removed.
LEMMA FilesFinish ==
    ASSUME IInv, JInv, FilesInv, NEW n \in Sizes, FinishFile(n)
    PROVE  FilesInv'
<1>1. /\ pc = "chunk" /\ handled' = handled \cup {Here}
      /\ UNCHANGED <<task, status, results>>
      /\ files' = IF Keep = "ALL" THEN files ELSE files \ {Here}
  BY DEF FinishFile, workersIdle
<1>2. status[Here] = "Ok"
  BY <1>1 DEF JInv, ChunkIsOpen
<1>3. Submitted' /\ FilesBegun' /\ NoTeapot'
  BY <1>1, <1>2 DEF FilesInv, Submitted, FilesBegun, NoTeapot
<1>4. StreamedGone' /\ ErrorsGone'
  BY <1>1, <1>2 DEF FilesInv, StreamedGone, ErrorsGone, KeepsErrors
<1>5. QED
  BY <1>3, <1>4 DEF FilesInv

\* The invariant of the files is inductive.
LEMMA FilesNext == ASSUME IInv, JInv, FilesInv, [Next]_vars PROVE FilesInv'
<1> USE DEF workersIdle
<1>1. CASE WaitSkip \/ WaitFailed \/ WaitResubmit \/ StreamSkip \/ StreamFailed
           \/ StreamResubmit
  BY <1>1, FilesPass DEF WaitSkip, WaitFailed, WaitResubmit, StreamSkip, StreamFailed,
     StreamResubmit
<1>2. CASE WaitTooLarge \/ WaitFound \/ WaitNoData \/ WaitAgain \/ WaitTimeout
  BY <1>2, FilesShrink DEF WaitTooLarge, WaitNoData, Fail, WaitFound, WaitAgain,
     WaitTimeout
<1>3. CASE Begin \/ StreamAgain \/ StreamTooLarge \/ OpenFile \/ StreamFoot \/ StreamEnd
  BY <1>3, FilesShrink DEF Begin, StreamAgain, StreamTooLarge, Break, OpenFile,
     StreamFoot, StreamEnd
<1>4. CASE Closing
  BY <1>4, FilesShrink DEF Closing, Terminate, TerminateJoin, RemoveReady, CallOnClose,
     Closed, TeardownRequest, procVars, workerVars
<1>5. CASE Environment \/ Expire \/ UNCHANGED vars
  BY <1>5, FilesShrink DEF Environment, EarlyClose, ClientClose, StreamFault, Break,
     Expire, vars, procVars, workerVars
<1>6. CASE Worker
  BY <1>6, FilesWorker
<1>7. QED
  BY <1>1, <1>2, <1>3, <1>4, <1>5, <1>6, FilesFinish
     DEF Next, Processor, Idle, Waiting, Streaming

\* The invariant holds for every federated request.
LEMMA FilesSpec == Spec => []FilesInv
BY FilesInit, FilesNext, SpecInv, AnswerInv, PTL DEF Spec

\* After a complete response, when keep_tempfiles is "none", only tasks that
\* raised have left a file: those of streamed results were removed by the
\* stream, those of endpoint errors by their tasks, and no result that was
\* torn down or over the budget had one.
THEOREM OnlyCrashesLeave == Spec => []OnlyCrashesLeaveFiles
<1>1. ASSUME IInv, JInv, FilesInv, Delivered, ~KeepsErrors, NEW t \in files
      PROVE  status[t] = "TaskError"
  <2>1. t \in Tasks
    BY <1>1 DEF IInv, TypeOK
  <2>2. t \in handled
    BY <1>1, <2>1 DEF FilesInv, FilesBegun, Submitted, Delivered, AllHandled
  <2>3. task[t] = "ready"
    BY <1>1, <2>2 DEF JInv, HandledSettled, IsReady
  <2>4. status[t] \in {"Ok", "TaskError", "Torn"}
    BY <1>1, <2>3 DEF FilesInv, ErrorsGone
  <2>5. QED
    BY <1>1, <2>2, <2>4 DEF FilesInv, StreamedGone, NoTeapot
<1>2. IInv /\ JInv /\ FilesInv => OnlyCrashesLeaveFiles
  BY <1>1 DEF OnlyCrashesLeaveFiles
<1>3. QED
  BY <1>2, SpecInv, AnswerInv, FilesSpec, PTL

-----------------------------------------------------------------------------
(* _terminate and the files of results that became ready.                    *)

\* A processor that resubmits, whose clients ask for the first chunk and whose
\* files can be read: otherwise the response is left without _terminate, as it
\* is by the text processor on a 413.
Prompt == Resubmits /\ Faults \cap {"early", "stream"} = {}

ReadyGone == \A t \in files : ~(IsReady(t) /\ status[t] = "Ok")

\* The pool has been terminated, or all its results were handled before, by the
\* time the request is left; no result becomes ready after that.
NoneToCome ==
    /\ pc \in {"draining", "joining", "closed"} => pool = "terminated"
    /\ pc = "foot" => AllHandled
    /\ pc \in {"closing", "failed"} => pool = "terminated" \/ AllHandled

LeftInv ==
    /\ NoneToCome
    /\ pc \in {"closing", "joining", "closed", "failed"} /\ ~KeepsErrors => ReadyGone

\* When all results are handled no file of a 200 is left.
LEMMA AllHandledGone ==
    ASSUME IInv, FilesInv, AllHandled, ~KeepsErrors
    PROVE  ReadyGone
BY DEF IInv, TypeOK, ReadyGone, FilesInv, FilesBegun, Submitted, StreamedGone,
       AllHandled

\* The last part of _terminate removes all that are left.
LEMMA RemovedGone ==
    ASSUME IInv, FilesInv, ~KeepsErrors, RemoveReady, UNCHANGED <<task, status>>
    PROVE  ReadyGone'
<1> SUFFICES ASSUME NEW t \in files', IsReady(t), status[t] = "Ok" PROVE FALSE
  BY DEF ReadyGone, IsReady
<1>1. t \in files /\ t \notin Results({"Ok"}) \ handled
  BY DEF RemoveReady
<1>2. t \in Tasks
  BY <1>1 DEF IInv, TypeOK
<1>3. t \in Range(results)
  BY <1>2 DEF IsReady, FilesInv, Submitted
<1>4. t \in handled
  BY <1>1, <1>3 DEF Results
<1>5. QED
  BY <1>1, <1>4 DEF FilesInv, StreamedGone

\* Workers: only the result handler makes results ready, and where the request
\* has been left there is none to come.
LEMMA LeftWorker ==
    ASSUME IInv, JInv, FilesInv, LeftInv, Worker
    PROVE  LeftInv'
<1>1. UNCHANGED <<pc, results, handled>>
  BY WorkerQuiet DEF procVars
<1>2. pool' = pool
  BY DEF Worker, TaskRefuse, TaskOverBudget, TaskDownload, TaskOk, TaskError, SaaError,
         TaskCrash, GuardExit, Deliver, Step
<1>3. NoneToCome'
  BY <1>1, <1>2 DEF LeftInv, NoneToCome, AllHandled
<1>4. ASSUME pc \in {"closing", "joining", "closed", "failed"}, ~KeepsErrors
      PROVE  ReadyGone'
  <2>1. pool = "terminated" \/ AllHandled
    BY <1>4 DEF LeftInv, NoneToCome
  <2>2. ASSUME NEW t \in Tasks, Deliver(t) PROVE FALSE
    <3>1. task[t] = "returned" /\ pool # "terminated"
      BY <2>2 DEF Deliver, Step
    <3>2. t \in handled
      BY <2>1, <3>1 DEF FilesInv, Submitted, AllHandled
    <3>3. QED
      BY <3>1, <3>2 DEF JInv, HandledSettled, IsReady
  <2>3. PICK t \in Tasks, from \in {"queued", "download", "guard"},
             to \in {"download", "guard", "returned"} :
                (\E c : Step(t, from, to, c)) /\ files' \subseteq files \cup {t}
    <3>1. queue # <<>> => Head(queue) \in Tasks
      BY HeadIsTask DEF IInv
    <3>2. CASE TaskRefuse
      BY <3>1, <3>2 DEF TaskRefuse, CanTake
    <3>3. CASE TaskOverBudget \/ TaskDownload
      BY <3>1, <3>3 DEF TaskOverBudget, TaskDownload, CanTake
    <3>4. ASSUME NEW u \in Tasks, TaskOk(u) \/ TaskError(u) \/ SaaError(u)
          PROVE  \E c : Step(u, "download", "guard", c) \/ Step(u, "download", "returned", c)
      BY <3>4 DEF TaskOk, TaskError, SaaError
    <3>5. ASSUME NEW u \in Tasks, TaskCrash(u) \/ GuardExit(u)
          PROVE  \E c : Step(u, "download", "returned", c) \/ Step(u, "guard", "returned", c)
      BY <3>5 DEF TaskCrash, GuardExit
    <3>6. ASSUME NEW u \in Tasks,
                 TaskOk(u) \/ TaskError(u) \/ SaaError(u) \/ TaskCrash(u) \/ GuardExit(u)
          PROVE  files' \subseteq files
      BY <3>6 DEF TaskOk, TaskError, SaaError, TaskCrash, GuardExit
    <3>7. QED
      BY <2>2, <3>2, <3>3, <3>4, <3>5, <3>6 DEF Worker
  <2>4. \A u \in Tasks : task'[u] = "ready" =>
            u # t /\ task[u] = "ready" /\ status'[u] = status[u]
    BY <2>3 DEF Step, IInv, TypeOK
  <2>5. files' \subseteq Tasks
    BY <2>3 DEF IInv, TypeOK
  <2>6. ReadyGone
    BY <1>4 DEF LeftInv
  <2>7. QED
    BY <2>3, <2>4, <2>5, <2>6 DEF ReadyGone, IsReady
<1>5. QED
  BY <1>1, <1>3, <1>4 DEF LeftInv

\* A step of the processor within the part of the request that is not over.
LEMMA LeftQuiet ==
    ASSUME pc' \notin {"foot", "draining", "closing", "joining", "closed", "failed"}
    PROVE  LeftInv'
BY DEF LeftInv, NoneToCome

\* The ways out of _wait and of the stream, and what follows.
LEMMA LeftProcessor ==
    ASSUME Prompt, IInv, JInv, FilesInv, LeftInv, Processor \/ Environment \/ Expire
    PROVE  LeftInv'
<1> USE DEF workersIdle
<1>1. CASE WaitSkip \/ WaitFailed \/ WaitResubmit \/ StreamSkip \/ StreamFailed
           \/ StreamResubmit
  BY <1>1, LeftQuiet DEF WaitSkip, WaitFailed, WaitResubmit, StreamSkip, StreamFailed,
     StreamResubmit, Skip, DropFailed, Resubmit
<1>2. CASE WaitFound \/ WaitAgain \/ WaitTimeout \/ Begin \/ StreamAgain \/ OpenFile
  BY <1>2, LeftQuiet DEF WaitFound, WaitAgain, WaitTimeout, Begin, StreamAgain, OpenFile
<1>3. ASSUME NEW n \in Sizes, FinishFile(n) PROVE LeftInv'
  BY <1>3, LeftQuiet DEF FinishFile
<1>4. CASE WaitTooLarge \/ EarlyClose \/ StreamTooLarge \/ StreamFault
  BY <1>4 DEF Prompt, WaitTooLarge, EarlyClose, StreamTooLarge, StreamFault
<1>5. CASE ClientClose
  BY <1>5, LeftQuiet DEF ClientClose
<1>6. CASE Expire
  BY <1>6, LeftQuiet DEF Expire, procVars
<1>7. ASSUME AllHandled, UNCHANGED <<task, status, files, results, handled>>,
             pc' \in {"failed", "closing", "foot"}
      PROVE  LeftInv'
  <2>1. ~KeepsErrors => ReadyGone
    BY <1>7, AllHandledGone
  <2>2. AllHandled' /\ (ReadyGone => ReadyGone')
    BY <1>7 DEF AllHandled, ReadyGone, IsReady
  <2>3. QED
    BY <1>7, <2>1, <2>2 DEF LeftInv, NoneToCome
<1>8. CASE WaitNoData \/ StreamFoot
  BY <1>7, <1>8 DEF WaitNoData, Fail, StreamFoot
<1>9. CASE StreamEnd
  <2>1. AllHandled
    BY <1>9 DEF StreamEnd, LeftInv, NoneToCome
  <2>2. QED
    BY <1>7, <1>9, <2>1 DEF StreamEnd
<1>10. CASE Terminate
  <2>1. pool' = "terminated" /\ pc' \in {"failed", "draining"}
        /\ (pc' = "failed" => RemoveReady) /\ UNCHANGED <<task, status>>
    BY <1>10 DEF Terminate, workerVars
  <2>2. pc' = "failed" /\ ~KeepsErrors => ReadyGone'
    BY <2>1, RemovedGone
  <2>3. QED
    BY <2>1, <2>2 DEF LeftInv, NoneToCome
<1>11. CASE TerminateJoin
  <2>1. pool' = "terminated" /\ pc' = "closing" /\ RemoveReady
        /\ UNCHANGED <<task, status>>
    BY <1>11 DEF TerminateJoin, LeftInv, NoneToCome
  <2>2. ~KeepsErrors => ReadyGone'
    BY <2>1, RemovedGone
  <2>3. QED
    BY <2>1, <2>2 DEF LeftInv, NoneToCome
<1>12. CASE CallOnClose \/ Closed
  <2>1. /\ pool' = "terminated" /\ pc \in {"closing", "joining"}
        /\ pc' \in {"joining", "closed"} /\ UNCHANGED <<task, status, files>>
    BY <1>12 DEF CallOnClose, Closed, LeftInv, NoneToCome, workerVars
  <2>2. ~KeepsErrors => ReadyGone'
    BY <2>1 DEF LeftInv, ReadyGone, IsReady
  <2>3. QED
    BY <2>1, <2>2 DEF LeftInv, NoneToCome
<1>13. CASE TeardownRequest
  <2>1. UNCHANGED <<pc, pool, results, handled, task, status, files>>
    BY <1>13 DEF TeardownRequest, procVars
  <2>2. QED
    BY <2>1 DEF LeftInv, NoneToCome, AllHandled, ReadyGone, IsReady
<1>14. QED
  BY <1>1, <1>2, <1>3, <1>4, <1>5, <1>6, <1>8, <1>9, <1>10, <1>11, <1>12, <1>13
     DEF Processor, Waiting, Streaming, Closing, Environment

\* When keep_tempfiles is "none" a request of the raw and the WFCatalog
\* processor, be it answered, refused, timed out or left by its client in the
\* middle of the stream, leaves no file of a result that became ready.
THEOREM ReadyFilesAreRemoved == ASSUME Prompt PROVE Spec => []ReadyFilesRemoved
<1>1. Init => LeftInv
  BY DEF Init, LeftInv, NoneToCome
<1>2. ASSUME LeftInv, UNCHANGED vars PROVE LeftInv'
  BY <1>2 DEF vars, procVars, workerVars, LeftInv, NoneToCome, AllHandled, ReadyGone,
              IsReady
<1>3. IInv /\ JInv /\ FilesInv /\ LeftInv /\ [Next]_vars => LeftInv'
  BY <1>2, LeftWorker, LeftProcessor DEF Next, Idle
<1>4. LeftInv => ReadyFilesRemoved
  BY DEF LeftInv, ReadyGone, ReadyFilesRemoved, Finished
<1>5. QED
  BY <1>1, <1>3, <1>4, SpecInv, AnswerInv, FilesSpec, PTL DEF Spec

=============================================================================
