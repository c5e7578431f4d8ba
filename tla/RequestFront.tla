----------------------------- MODULE RequestFront -----------------------------
(***************************************************************************)
(* What stands before the handler of POST /optimize-energy: the body limit *)
(* of app/http_safety.py and the request schema of app/schemas.py.         *)
(* Service conjoins these actions with the life of the planner.            *)
(*                                                                         *)
(* Sizes are in any unit; a payload is what the schema tells apart: the    *)
(* notes (is each more than blanks?), the hours with one datum each, and   *)
(* the three energies of the battery.                                      *)
(***************************************************************************)
EXTENDS Integers, Sequences, FiniteSets, Functions

CONSTANTS
  Requests,
  MaxBody,     \* max_request_body_bytes
  BodySizes,   \* sizes of the bodies that clients send, and lengths they declare
  Absent,      \* no content-length
  Junk,        \* a content-length that is no number
  Payloads,    \* what those bodies may hold
  Day,         \* hours of a day
  NoPayload

ASSUME FrontAssumption ==
  /\ MaxBody \in Nat \ {0} /\ BodySizes \subseteq Nat /\ Day \in Nat \ {0}
  /\ NoPayload \notin Payloads /\ {Absent, Junk} \intersect BodySizes = {}
  /\ \A p \in Payloads :
       /\ p.parses \in BOOLEAN /\ p.notes \in Seq(BOOLEAN)
       /\ p.hours \in Seq([hour : Int, datum : Nat])
       /\ {p.capacity, p.initial, p.minimum} \subseteq Nat

VARIABLES
  stage,     \* where the request is
  claim,     \* the size of its body and what its content-length says of it
  left,      \* what its client has not sent yet
  held,      \* len(body) in the middleware
  gone,      \* its client has disconnected
  payload,   \* what its body held, once parsed
  request,   \* the hours handed to the planner
  status     \* of its answer, 0 for none

frontVars == <<stage, claim, left, held, gone, payload, request, status>>

FrontInit ==
  /\ stage = [r \in Requests |-> "idle"]
  /\ claim = [r \in Requests |-> [size |-> 0, declared |-> Absent]]
  /\ left = [r \in Requests |-> 0] /\ held = [r \in Requests |-> 0]
  /\ gone = [r \in Requests |-> FALSE]
  /\ payload = [r \in Requests |-> NoPayload]
  /\ request = [r \in Requests |-> <<>>]
  /\ status = [r \in Requests |-> 0]

Goes(r, where) == stage' = [stage EXCEPT ![r] = where]

Answers(r, code) == Goes(r, "done") /\ status' = [status EXCEPT ![r] = code]

\* Slip: a body of exactly the limit is too large.
TooLargeFromLimit(n) == n >= MaxBody

TooLarge(n) == n > MaxBody

\* A declared length is refused unread if it is no number or too large.  It need
\* not be the size: of a chunked body the server goes by the chunks.
Arrive(r) ==
  /\ stage[r] = "idle"
  /\ \E size \in BodySizes, declared \in BodySizes \union {Absent, Junk} :
       /\ claim' = [claim EXCEPT ![r] = [size |-> size, declared |-> declared]]
       /\ left' = [left EXCEPT ![r] = size]
       /\ IF declared = Junk \/ (declared # Absent /\ TooLarge(declared))
          THEN Answers(r, 400)
          ELSE Goes(r, "reading") /\ UNCHANGED status
  /\ UNCHANGED <<held, gone, payload, request>>

\* Slip: the size is looked at when the whole body is there.
ReceiveUnchecked(r) ==
  /\ stage[r] = "reading" /\ ~gone[r]
  /\ \E n \in 0..left[r], more \in BOOLEAN :
       /\ IF more THEN n > 0 ELSE n = left[r]
       /\ held' = [held EXCEPT ![r] = @ + n]
       /\ left' = [left EXCEPT ![r] = @ - n]
       /\ IF more THEN UNCHANGED <<stage, status>>
          ELSE IF TooLarge(held[r] + n) THEN Answers(r, 400)
          ELSE Goes(r, "parsing") /\ UNCHANGED status
  /\ UNCHANGED <<claim, gone, payload, request>>

\* http.request: the part is added first and the sum is looked at then.
Receive(r) ==
  /\ stage[r] = "reading" /\ ~gone[r]
  /\ \E n \in 0..left[r], more \in BOOLEAN :
       /\ IF more THEN n > 0 ELSE n = left[r]
       /\ held' = [held EXCEPT ![r] = @ + n]
       /\ left' = [left EXCEPT ![r] = @ - n]
       /\ IF TooLarge(held[r] + n)
          THEN Answers(r, 400)
          ELSE Goes(r, IF more THEN "reading" ELSE "parsing") /\ UNCHANGED status
  /\ UNCHANGED <<claim, gone, payload, request>>

\* Slip: a disconnect ends the loop and what was read is passed on.
DisconnectedBreaks(r) ==
  /\ stage[r] = "reading" /\ gone[r] /\ Goes(r, "parsing")
  /\ UNCHANGED <<claim, left, held, gone, payload, request, status>>

\* http.disconnect: nobody is there to answer.
Disconnected(r) ==
  /\ stage[r] = "reading" /\ gone[r] /\ Goes(r, "done")
  /\ UNCHANGED <<claim, left, held, gone, payload, request, status>>

\* The client goes away; only a receive() of the server tells the application.
Leave(r) ==
  /\ stage[r] \in {"reading", "parsing", "handling", "planning"} /\ ~gone[r]
  /\ gone' = [gone EXCEPT ![r] = TRUE]
  /\ UNCHANGED <<stage, claim, left, held, payload, request, status>>

NotesValid(p) == Len(p.notes) \in 1..3 /\ \A i \in DOMAIN p.notes : p.notes[i]

HoursValid(p) ==
  LET actual == {p.hours[i].hour : i \in DOMAIN p.hours}
  IN Len(p.hours) = Day /\ actual = 0..(Day - 1) /\ Len(p.hours) = Cardinality(actual)

BatteryValid(p) == p.initial <= p.capacity /\ p.minimum <= p.capacity

\* Slip: the hours are checked and left in the client's order.
Unordered(p) == p.hours

\* sorted by hour, of entries whose hours are all different.
Ordered(p) ==
  [i \in 1..Day |-> CHOOSE entry \in Range(p.hours) : entry.hour = i - 1]

\* Slip: the application waits on the server's receive(), which has no body left.
ParseFromServer(r) ==
  /\ stage[r] = "parsing" /\ gone[r]
  /\ Answers(r, 400)
  /\ UNCHANGED <<claim, left, held, gone, payload, request>>

\* The application reads the replayed body, whether or not its client is there.
Parse(r) ==
  /\ stage[r] = "parsing"
  /\ \E p \in Payloads :
       /\ payload' = [payload EXCEPT ![r] = p]
       /\ IF p.parses /\ NotesValid(p) /\ HoursValid(p) /\ BatteryValid(p)
          THEN /\ request' = [request EXCEPT ![r] = Ordered(p)]
               /\ Goes(r, "handling") /\ UNCHANGED status
          ELSE Answers(r, 400) /\ UNCHANGED request
  /\ UNCHANGED <<claim, left, held, gone>>

(***************************************************************************)
(* Properties                                                              *)
(***************************************************************************)

Stages == {"idle", "reading", "parsing", "handling", "planning", "done"}

\* Besides the types: the buffer holds no more than the limit and the one part
\* that exceeded it, so nothing is added to a body that is already too large.
FrontTypeOK ==
  /\ stage \in [Requests -> Stages]
  /\ claim \in [Requests -> [size : BodySizes \union {0}, declared : BodySizes \union {Absent, Junk}]]
  /\ left \in [Requests -> Nat] /\ held \in [Requests -> Nat]
  /\ gone \in [Requests -> BOOLEAN]
  /\ payload \in [Requests -> Payloads \union {NoPayload}]
  /\ request \in [Requests -> Seq([hour : Int, datum : Nat])]
  /\ status \in [Requests -> {0, 200, 400, 500}]
  /\ \A r \in Requests : stage[r] = "reading" => held[r] <= MaxBody

\* The application never sees a part of a body or one over the limit, declared
\* or not: what it parses is all the client had to send.
WholeBodiesOnly ==
  \A r \in Requests :
    (stage[r] = "parsing" \/ payload[r] # NoPayload) =>
      held[r] = claim[r].size /\ left[r] = 0 /\ held[r] <= MaxBody

\* A payload a planner can work with: each hour of the day once, at least one
\* note and none blank, and a battery that can hold what it must.
Sound(p) ==
  /\ p.parses /\ Len(p.notes) \in 1..3 /\ FALSE \notin Range(p.notes)
  /\ \E order \in [0..(Day - 1) -> DOMAIN p.hours] :
       /\ \A i \in DOMAIN p.hours : \E h \in 0..(Day - 1) : order[h] = i
       /\ \A h \in 0..(Day - 1) : p.hours[order[h]].hour = h
  /\ {p.initial, p.minimum} \subseteq 0..p.capacity

\* A request is refused for the length it declares, for its size or for its
\* payload, and for nothing else; and a payload that is not sound is refused.
RefusedForCause ==
  \A r \in Requests :
    /\ status[r] = 400 =>
         \/ claim[r].declared = Junk \/ claim[r].size > MaxBody
         \/ claim[r].declared \in BodySizes /\ claim[r].declared > MaxBody
         \/ payload[r] # NoPayload /\ ~Sound(payload[r])
    /\ (payload[r] # NoPayload /\ status[r] # 400) => Sound(payload[r])

\* The arrays of the planner are indexed by hour: what it gets at an hour is what
\* the client said of that hour, in whichever order the client said it.
PlannerGetsOrderedDay ==
  \A r \in Requests : stage[r] = "planning" =>
    /\ DOMAIN request[r] = 1..Day
    /\ \A i \in 1..Day : \A entry \in Range(payload[r].hours) :
         entry.hour = i - 1 <=> entry = request[r][i]
=============================================================================
