------------------------------- MODULE Daziweb -------------------------------
(***************************************************************************)
(* The web server (src/src/web/daziweb.c) with a page in a browser         *)
(* (src/public_html/dz.js) that calls it, and other programs that change   *)
(* the dazibao.  One connection at a time is served, the dazibao being     *)
(* opened, and locked, once the request is read, and closed after it; the  *)
(* SIGINT handler may run between any two steps.                           *)
(***************************************************************************)
EXTENDS Routing

CONSTANTS
  Initial,     \* what the dazibao holds first
  Calls,       \* what is asked of the server: [method, path, data]
  Others,      \* the values other programs add
  PageSlots,   \* how many slots a file is rounded up to while it is open
  MaxCalls,    \* bound: calls
  MaxChanges,  \* bound: times other programs open the dazibao or remove it
  MaxEnds,     \* bound: times the server ends
  MaxLeaves    \* bound: clients that leave

ASSUME DaziwebAssumption ==
  /\ PageSlots \in Nat \ {0}
  /\ MaxCalls \in Nat /\ MaxChanges \in Nat /\ MaxEnds \in Nat /\ MaxLeaves \in Nat

VARIABLES
  file,    \* the dazibao at the path; when there is none, the one that was there and is still mapped
  there,   \* there is a dazibao at the path: a file that dz_create has not locked yet, or whose creator
           \* was killed, is none, and dz_open gives it up
  lock,    \* who has its lock: "none", "server", "other", or "changed", another that has changed it
  olen,    \* d->len of another program that has it open
  traced,  \* so many -v were given that LOGTRACE evaluates its arguments
  at,      \* what the server is at
  fd,      \* dz.fd > 0
  len,     \* dz.len, be the dazibao open or not
  call,    \* the call it serves
  answer,  \* the status of its answer; 0 as long as there is none
  direct,  \* the answer was written with the dazibao open
  asked,   \* the call the page has made, not yet accepted
  shown,   \* the TLVs on the page, by offset
  prev,    \* dz.prev_hash
  poll,    \* where the page's poll is: NONE, ASKED, TAKEN, or its answer, a hash or -1
  news,    \* history: what has happened since the last hash was answered: who changed the length, and
           \* what else makes the page see a change
  why,     \* history: the news the last hash brought
  alarms,  \* history: the changes the page has announced
  since,   \* history: what has moved or cut the slots since the page was made
  calls, changes, ends, leaves

fileVars   == <<file, there, lock, olen>>
serverVars == <<traced, at, fd, len, call, answer, direct>>
pageVars   == <<asked, shown, prev, poll, alarms>>
history    == <<news, why, since>>
bounds     == <<calls, changes, ends, leaves>>
vars       == <<streamVars, fileVars, serverVars, pageVars, history, bounds>>

Ats   == {"accept", "parse", "open", "flock", "route", "close", "tell", "exited"}
NONE  == -4
ASKED == -3
TAKEN == -2

-----------------------------------------------------------------------------
(* The calls of dz.js, and what they say on the wire. *)

Call(method, path, data) == [method |-> method, path |-> path, data |-> data]

NoCall       == Call("none", NoPath, <<>>)
Load         == Call("GET", NoPath, <<>>)
HashCall     == Call("GET", Path(<<"hash">>, -1), <<>>)
Compact      == Call("POST", Path(<<"compact">>, -1), <<>>)
Del(o)       == Call("POST", Path(<<"tlv", "delete">>, o), <<>>)
AddText(t)   == Call("POST", Path(<<"tlv", "add", "text">>, -1), t)
AddTLV(data) == Call("POST", Path(<<"tlv", "add", "form">>, -1), data)

Is(c, like) == c.method = like.method /\ c.path.dir = like.path.dir

\* What is asked for has the path of a route, or one that no route takes; the hash is asked for only by
\* check_hash.
ASSUME CallsAssumption ==
  /\ Initial \in Seq(Range(Initial))
  /\ \A c \in Calls :
       /\ c.data \in Seq(Range(c.data))
       /\ ~Is(c, HashCall)
       /\ \A i \in DOMAIN Routes : IsPrefix(Routes[i].dir, c.path.dir) =>
            \E j \in DOMAIN Routes : c.path.dir = Routes[j].dir

RequestLine(c) == <<<<"start", c.method, c.path>>>> \o CRLF

\* A POST without data says that it has none.
Posted(c, headers, body) ==
  RequestLine(c) \o headers \o <<<<"length", Len(body)>>>> \o CRLF \o CRLF \o body

Boundary(c) == IF Is(c, AddTLV(<<>>)) THEN "b" ELSE "none"

BodySent(c) == IF Is(c, AddTLV(<<>>)) THEN Form("b", <<c.data>>) ELSE c.data

Wire(c) ==
  IF c.method # "POST" THEN RequestLine(c) \o CRLF
  ELSE Posted(c, IF Is(c, AddTLV(<<>>)) THEN <<<<"type", "b">>>> \o CRLF ELSE <<>>, BodySent(c))

-----------------------------------------------------------------------------
(* The dazibao as the server has it. *)

\* ftruncate
Resized(f, n) == [i \in 1 .. n |-> IF i <= Len(f) THEN f[i] ELSE PAD]

\* What dz_mmap_data stretches the file to, and dz_close cuts it back from.
Stretched(f) == Resized(f, PageSlots * ((Len(f) + PageSlots - 1) \div PageSlots))

\* What leaving g in the file adds to the history.
NewsOf(g, who) == IF Len(g) # Len(file) THEN {who} ELSE {}
CutBy(g)       == IF Len(g) < Len(file) THEN {"cut"} ELSE {}

Init ==
  /\ StreamInit
  /\ file = Initial /\ there = TRUE /\ lock = "none" /\ olen = 0
  /\ traced \in BOOLEAN
  /\ at = "accept" /\ fd = FALSE /\ len = Len(file)
  /\ call = NoCall /\ answer = 0 /\ direct = FALSE
  /\ asked = NoCall /\ shown = file /\ prev = 0 /\ poll = NONE /\ alarms = 0
  /\ news = {} /\ why = {} /\ since = {}
  /\ calls = 0 /\ changes = 0 /\ ends = 0 /\ leaves = 0

-----------------------------------------------------------------------------
(* The page *)

\* Only what it shows can be deleted from it.
Ask(c) ==
  /\ asked = NoCall /\ calls < MaxCalls
  /\ Is(c, Del(0)) => c.path.off \in DOMAIN shown /\ shown[c.path.off] # PAD
  /\ asked' = c
  /\ calls' = calls + 1
  /\ UNCHANGED <<streamVars, fileVars, serverVars, shown, prev, poll, alarms, history, changes, ends, leaves>>

\* check_hash
CheckHash ==
  /\ poll = NONE /\ calls < MaxCalls
  /\ poll' = ASKED
  /\ calls' = calls + 1
  /\ UNCHANGED <<streamVars, fileVars, serverVars, asked, shown, prev, alarms, history, changes, ends, leaves>>

\* Mutant: a first hash is news.
IsChange_First(hash) == hash > -1 /\ hash # prev

\* No change is seen in the first hash, nor in a failure; after a failure any hash is a change.
IsChange(hash) == prev # 0 /\ hash > -1 /\ hash # prev

\* The callback of check_hash.
HashCallback ==
  /\ poll >= -1
  /\ alarms' = IF IsChange(poll) THEN alarms + 1 ELSE alarms
  /\ prev' = poll
  /\ poll' = NONE
  /\ UNCHANGED <<streamVars, fileVars, serverVars, asked, shown, news, why, since, bounds>>

\* A new page: its script starts anew.
Loaded(slots) ==
  /\ shown' = slots
  /\ prev' = 0
  /\ poll' = NONE
  /\ UNCHANGED alarms

\* What the page does with the answer to its call: a status, 0 when there was none, and what it says.
Callback(c, st, says) ==
  CASE Is(c, Load) ->
         Loaded(IF st = Status.OK THEN says ELSE <<>>)
    [] Is(c, HashCall) ->
         poll' = (IF st = Status.OK THEN says[1] ELSE -1) /\ UNCHANGED <<shown, prev, alarms>>
    [] Is(c, Del(0)) /\ st = Status.NO_CT /\ c.path.off \in DOMAIN shown ->
         shown' = [shown EXCEPT ![c.path.off] = PAD] /\ UNCHANGED <<prev, poll, alarms>>
    [] Is(c, AddTLV(<<>>)) ->
         prev' = 0 /\ UNCHANGED <<shown, poll, alarms>>
    [] OTHER ->
         UNCHANGED <<shown, prev, poll, alarms>>

\* check_hash has an answer to come that is older than what the page has just added.
Raced(c) == IF Is(c, AddTLV(<<>>)) /\ poll >= 0 THEN {"raced"} ELSE {}

-----------------------------------------------------------------------------
(* The server *)

Accept ==
  /\ at = "accept"
  /\ \/ asked # NoCall /\ call' = asked /\ asked' = NoCall /\ UNCHANGED poll
     \/ poll = ASKED /\ call' = HashCall /\ poll' = TAKEN /\ UNCHANGED asked
  /\ Connect(Wire(call'))
  /\ at' = "parse"
  /\ UNCHANGED <<fileVars, traced, fd, len, answer, direct, shown, prev, alarms, history, bounds>>

Receive ==
  /\ at = "parse" /\ StreamStep
  /\ UNCHANGED <<fileVars, serverVars, pageVars, history, bounds>>

\* The value of parse_request.
Understand ==
  /\ at = "parse" /\ place = "parsed"
  /\ IF status = 0 THEN at' = "open" /\ UNCHANGED answer
                   ELSE at' = "tell" /\ answer' = status
  /\ UNCHANGED <<streamVars, fileVars, traced, fd, len, call, direct, pageVars, history, bounds>>

OpenDz ==
  /\ at = "open" /\ there
  /\ at' = "flock"
  /\ fd' = TRUE
  /\ UNCHANGED <<streamVars, fileVars, traced, len, call, answer, direct, pageVars, history, bounds>>

\* Mutant: fstat before flock.
Flock_OldLength ==
  /\ at = "flock" /\ lock = "none"
  /\ lock' = "server"
  /\ at' = "route"
  /\ UNCHANGED <<streamVars, file, there, olen, traced, fd, len, call, answer, direct, pageVars, history, bounds>>

\* The lock of an earlier request is in the way as any other.
Flock ==
  /\ at = "flock" /\ lock = "none"
  /\ lock' = "server"
  /\ len' = Len(file)
  /\ at' = "route"
  /\ UNCHANGED <<streamVars, file, there, olen, traced, fd, call, answer, direct, pageVars, history, bounds>>

\* The routes are registered in the arguments of a LOGTRACE.
Registered == IF traced THEN Routes ELSE <<>>

Who == IF Is(call, AddTLV(<<>>)) THEN "own" ELSE "page"

\* The history of an answer given with the dazibao open: tells, if it is heard.
Recorded(res, tells) ==
  LET hashed   == tells /\ Is(call, HashCall) /\ res.status = Status.OK
      reloaded == tells /\ Is(call, Load) /\ res.status = Status.OK
      now      == news \cup NewsOf(res.kept, Who) \cup (IF tells THEN Raced(call) ELSE {})
  IN  /\ news' = IF hashed THEN {} ELSE now
      /\ why' = IF hashed THEN now ELSE why
      /\ since' = IF reloaded THEN {}
                  ELSE since \cup CutBy(res.kept) \cup (IF Is(call, Compact) THEN {"compacted"} ELSE {})

\* What is mapped: when there is no dazibao to open, the one of the request before.
Mapping == Resized(file, len)

Serving == at = "route" \/ (at = "open" /\ ~there)

Outcomes == Routed(Registered, req, Mapping, fd)

\* route_request: an answer with a result is written at once.
RouteRequest ==
  /\ Serving
  /\ \E res \in Outcomes :
       LET tells == res.direct /\ ~gone
       IN  /\ file' = res.kept
           /\ len' = Len(res.kept)
           /\ answer' = res.status
           /\ direct' = res.direct
           /\ IF tells THEN Callback(call, res.status, res.says)
                       ELSE UNCHANGED <<shown, prev, poll, alarms>>
           /\ Recorded(res, tells)
  /\ at' = "close"
  /\ UNCHANGED <<streamVars, there, lock, olen, traced, fd, call, asked, bounds>>

\* The connection ends.
Done ==
  /\ Hangup
  /\ call' = NoCall
  /\ answer' = 0
  /\ direct' = FALSE

\* Mutant: the dazibao is closed only after a request that a handler has answered.
CloseDz_Answered ==
  /\ at = "close"
  /\ lock' = IF traced /\ fd /\ direct THEN "none" ELSE lock
  /\ fd' = FALSE
  /\ IF direct THEN Done /\ at' = "accept"
     ELSE at' = "tell" /\ UNCHANGED <<streamVars, call, answer, direct>>
  /\ UNCHANGED <<file, there, olen, traced, len, pageVars, history, bounds>>

\* dz_close is in the arguments of a LOGTRACE too; dz.fd is forgotten all the same.  It truncates the
\* file to d->len, the length of file, and fails for a dazibao that could not be opened.
CloseDz ==
  /\ at = "close"
  /\ lock' = IF traced /\ fd THEN "none" ELSE lock
  /\ fd' = FALSE
  /\ IF direct THEN Done /\ at' = "accept"
     ELSE at' = "tell" /\ UNCHANGED <<streamVars, call, answer, direct>>
  /\ UNCHANGED <<file, there, olen, traced, len, pageVars, history, bounds>>

\* The errors that parse_request and the handlers leave to main.
Tell ==
  /\ at = "tell"
  /\ IF gone THEN UNCHANGED <<shown, prev, poll, alarms, news>>
     ELSE Callback(call, answer, <<>>) /\ news' = news \cup Raced(call)
  /\ Done
  /\ at' = "accept"
  /\ UNCHANGED <<fileVars, traced, fd, len, asked, why, since, bounds>>

-----------------------------------------------------------------------------
(* What ends the server, and what starts it. *)

\* The process ends and leaves g: its locks go with it.
Ends(g) ==
  /\ file' = g
  /\ lock' = IF lock = "server" THEN "none" ELSE lock
  /\ fd' = FALSE
  /\ at' = "exited"
  /\ Done
  /\ UNCHANGED <<there, olen, traced, len, asked, calls, changes, leaves>>

\* A file that is not closed stays as long as dz_mmap_data has made it.
Unclosed(g) == IF lock = "server" THEN Stretched(g) ELSE g

\* The process ends and the page's call fails, if it has no answer yet.
Breaks(g) ==
  /\ Ends(g)
  /\ since' = since \cup CutBy(g) \cup (IF Is(call, Compact) THEN {"compacted"} ELSE {})
  /\ IF gone \/ direct
     THEN news' = news \cup NewsOf(g, "ended") /\ UNCHANGED <<shown, prev, poll, alarms>>
     ELSE /\ news' = news \cup NewsOf(g, "ended") \cup Raced(call)
          /\ Callback(call, 0, <<>>)
  /\ UNCHANGED why

\* html_add_tlv has freed the page it gives up, and destroy_http_response frees it again: undefined, and
\* an abort where the C library looks.
PageAborts ==
  /\ Serving
  /\ HandlerOf(Registered, req.method, req.path) = "index" /\ IsIndex(req) /\ NoPage(req, Mapping)
  /\ Breaks(Unclosed(file))
  /\ UNCHANGED ends

\* SIGPIPE is not caught: an answer to a client that has left may end the server.  What the request has
\* cut is cut, though the file is stretched.
Dies(g) ==
  /\ gone
  /\ Ends(Unclosed(g))
  /\ news' = news \cup NewsOf(Unclosed(g), "ended")
  /\ since' = since \cup CutBy(g) \cup (IF Is(call, Compact) THEN {"compacted"} ELSE {})
  /\ UNCHANGED <<shown, prev, poll, alarms, why, ends>>

RequestDies ==
  /\ Serving
  /\ \E res \in Outcomes : res.direct /\ Dies(res.kept)

TellDies == at = "tell" /\ Dies(file)

\* What dz_compact has in the file before it is done: a slot is moved as a whole.
HalfCompacted(f) ==
  {SubSeq(Compacted(f), 1, k) \o SubSeq(f, k + 1, Len(f)) : k \in 0 .. Len(Compacted(f))}

\* Where a request may be when it is interrupted: not begun, done, or in the middle of it.
MidRoute ==
  {file} \cup {res.kept : res \in Outcomes}
    \cup (IF traced /\ Is(call, Compact) THEN HalfCompacted(file) ELSE {})

\* clean_close closes the dazibao if dz.fd says that it is open: with the length of an earlier
\* request, and no lock, in the middle of dz_open.
LeftBySigInt ==
  CASE at = "flock"         -> {Resized(file, len)}
    [] at = "route"         -> MidRoute
    [] at = "close" /\ fd   -> {file}
    [] OTHER                -> {Unclosed(file)}

\* clean_close, and exit.
SigInt ==
  /\ at # "exited" /\ ends < MaxEnds
  /\ ends' = ends + 1
  /\ \E g \in LeftBySigInt : Breaks(g)

\* A server is started anew: parse_args opens the dazibao and closes it.
Start ==
  /\ at = "exited" /\ there /\ lock = "none"
  /\ at' = "accept"
  /\ len' = Len(file)
  /\ UNCHANGED <<streamVars, fileVars, traced, fd, call, answer, direct, pageVars, history, bounds>>

\* Nobody listens.
Refuse ==
  /\ at = "exited"
  /\ \/ /\ asked # NoCall /\ asked' = NoCall
        /\ Callback(asked, 0, <<>>)
        /\ news' = news \cup Raced(asked)
     \/ /\ poll = ASKED /\ poll' = -1
        /\ UNCHANGED <<asked, shown, prev, alarms, news>>
  /\ UNCHANGED <<streamVars, fileVars, serverVars, why, since, bounds>>

\* The client goes away before it is answered: its call has failed.
LeaveEarly ==
  /\ at \notin {"accept", "exited"} /\ ~direct /\ leaves < MaxLeaves
  /\ Leave
  /\ leaves' = leaves + 1
  /\ Callback(call, 0, <<>>)
  /\ news' = news \cup Raced(call)
  /\ UNCHANGED <<fileVars, serverVars, asked, why, since, calls, changes, ends>>

-----------------------------------------------------------------------------
(* Other programs *)

OtherOpen ==
  /\ there /\ lock = "none" /\ changes < MaxChanges
  /\ lock' = "other"
  /\ olen' = Len(file)
  /\ changes' = changes + 1
  /\ UNCHANGED <<streamVars, file, there, serverVars, pageVars, history, calls, ends, leaves>>

\* A change of what it has mapped.
OtherWrite(g, what) ==
  /\ lock = "other"
  /\ lock' = "changed"
  /\ file' = g
  /\ olen' = Len(g)
  /\ news' = news \cup NewsOf(g, "others")
  /\ since' = since \cup CutBy(g) \cup what
  /\ UNCHANGED <<streamVars, there, serverVars, pageVars, why, bounds>>

Theirs == Resized(file, olen)

OtherAdds     == \E v \in Others : \E g \in Added(Theirs, v) : OtherWrite(g, {})
OtherRemoves  == \E o \in 1 .. olen : Theirs[o] # PAD /\ \E g \in Removed(Theirs, o) : OtherWrite(g, {})
OtherCompacts == OtherWrite(Compacted(Theirs), {"compacted"})

\* dz_close cuts the file to d->len.
OtherClose ==
  /\ lock \in {"other", "changed"}
  /\ file' = Theirs
  /\ lock' = "none"
  /\ news' = news \cup NewsOf(file', "others")
  /\ since' = since \cup CutBy(file')
  /\ UNCHANGED <<streamVars, there, olen, serverVars, pageVars, why, bounds>>

\* Somebody removes the dazibao while no program has it open, and somebody creates one: dz_create has
\* the lock from before the file is a dazibao until it is empty and whole.
RemoveDz ==
  /\ there /\ ~fd /\ lock = "none" /\ changes < MaxChanges
  /\ there' = FALSE
  /\ changes' = changes + 1
  /\ UNCHANGED <<streamVars, file, lock, olen, serverVars, pageVars, history, calls, ends, leaves>>

CreateDz ==
  /\ ~there
  /\ there' = TRUE
  /\ file' = <<>>
  /\ news' = news \cup NewsOf(<<>>, "others")
  /\ since' = since \cup {"created"}
  /\ UNCHANGED <<streamVars, lock, olen, serverVars, pageVars, why, bounds>>

-----------------------------------------------------------------------------

Server == Accept \/ Receive \/ Understand \/ OpenDz \/ Flock \/ RouteRequest \/ CloseDz \/ Tell

Next ==
  \/ \E c \in Calls : Ask(c)
  \/ CheckHash \/ HashCallback \/ LeaveEarly
  \/ Server
  \/ PageAborts \/ RequestDies \/ TellDies \/ SigInt \/ Start \/ Refuse
  \/ OtherOpen \/ OtherAdds \/ OtherRemoves \/ OtherCompacts \/ OtherClose
  \/ RemoveDz \/ CreateDz

\* The server goes on while it runs, and other programs close the dazibao.
Fairness == WF_vars(Server) /\ WF_vars(OtherClose)

Spec == Init /\ [][Next]_vars /\ Fairness

-----------------------------------------------------------------------------
(* Properties *)

TypeOK ==
  /\ place \in Places /\ cr \in BOOLEAN /\ gone \in BOOLEAN
  /\ split \in BOOLEAN /\ late \in BOOLEAN /\ shorts \in 0 .. MaxShort
  /\ lock \in {"none", "server", "other", "changed"} /\ there \in BOOLEAN /\ olen \in Nat
  /\ traced \in BOOLEAN /\ at \in Ats /\ fd \in BOOLEAN /\ len \in Nat
  /\ answer \in {0} \cup Range(Status) /\ direct \in BOOLEAN
  /\ poll \in {NONE, ASKED, TAKEN} \cup (Nat \cup {-1}) /\ prev \in Nat \cup {-1} /\ alarms \in Nat
  /\ calls \in 0 .. MaxCalls /\ changes \in 0 .. MaxChanges
  /\ ends \in 0 .. MaxEnds /\ leaves \in 0 .. MaxLeaves

\* The reads did not lose anything of the request.
Whole == ~split /\ ~late

\* src/src/web/request.c:248, 302: however the reads of a request fall, what parse_request understands
\* is what was sent, unless a read ended between a CR and its LF, which loses a header or an end of
\* the body, or the blank line was all there was to read, which puts it in front of the body.
ParsedAsSent ==
  (at = "parse" /\ ~gone) =>
    /\ place = "parsed" /\ status = 0 =>
         /\ req.method = call.method /\ req.path = call.path
         /\ Whole /\ call.method = "POST" => req.len = Len(BodySent(call)) /\ BodyOf(req) = BodySent(call)
    /\ place = "parsed" /\ status # 0 => split \/ call.method \notin Methods
    /\ place # "parsed" /\ wire = <<>> /\ rest = <<>> => split

TlvsOf(f) == SelectSeq(f, LAMBDA slot : slot # PAD)

\* src/src/web/routes.c:254, 282, src/src/web/routing.c:92: a request that changes the dazibao and is
\* answered with success has changed it as the page's call says, and any other leaves it alone: a file
\* comes through the form and its separators byte for byte, a text whole unless its request was split,
\* or as its beginning if it is longer than a TLV can be; a compaction takes pads and empty texts.
ServedAsAsked ==
  [][ (at = "route" /\ at' = "close") =>
        CASE answer' = Status.CREATED ->
               Is(call, AddTLV(<<>>)) /\ TlvsOf(file') = Append(TlvsOf(file), call.data)
          [] answer' = Status.NO_CT /\ Is(call, AddText(<<>>)) ->
               \E v \in {call.data, file'[Len(file')]} :
                 /\ TlvsOf(file') = Append(TlvsOf(file), v)
                 /\ Whole => IsPrefix(v, call.data)
                 /\ Whole /\ Len(call.data) <= MaxValue => v = call.data
          [] answer' = Status.NO_CT /\ ~Is(call, AddText(<<>>)) ->
               /\ Is(call, Del(0)) /\ call.path.off \in DOMAIN file
               /\ TlvsOf(file') = TlvsOf([file EXCEPT ![call.path.off] = PAD])
          [] answer' = Status.OK /\ Is(call, Compact) ->
               file' = SelectSeq(file, LAMBDA slot : slot \notin Void)
          [] OTHER -> file' = file ]_vars

\* src/src/web/routes.c:176: as long as the dazibao has not been compacted, cut or created anew since
\* the page was made, what a delete removes is what the page shows at that offset.
DeletesWhatIsShown ==
  [][ (/\ at = "route" /\ at' = "close" /\ Is(call, Del(0)) /\ answer' = Status.NO_CT
       /\ since = {} /\ call.path.off \in DOMAIN shown /\ shown[call.path.off] # PAD) =>
        file[call.path.off] \in {shown[call.path.off], PAD} ]_vars

Holds(f, v) == Cardinality({i \in DOMAIN f : f[i] = v})

\* How many of a value the request that is served names, to delete.
Named(v) ==
  IF at = "route" /\ Is(call, Del(0)) /\ call.path.off \in DOMAIN file /\ file[call.path.off] = v THEN 1 ELSE 0

\* The SIGINT handler interrupts dz_open in its wait for the lock.
CutInWait == at = "flock" /\ at' = "exited"

\* What of the dazibao is within the length it remembers.
Remembered == IF len < Len(file) THEN SubSeq(file, 1, len) ELSE file

\* How many TLVs with value v are to be there still.
Due(v) == IF CutInWait THEN Holds(Remembered, v) ELSE Holds(file, v) - Named(v)

\* src/src/web/daziweb.c:40, 302: whatever the server does, and wherever it is interrupted or killed, it
\* loses no TLV with a value but the one a delete names, and another program that closes the dazibao
\* none at all.  Interrupted in dz_open's wait for the lock, the server has no lock and a length it
\* remembers, and cuts what others have added: there, what that length takes in is kept.
OthersKept ==
  [][ (there /\ there' /\ ~(lock = "other" /\ lock' = "changed")) =>
        \A v \in Range(file) \ Void : Holds(file', v) >= Due(v) ]_vars

\* src/public_html/dz.js:220: when a page announces a change, somebody has changed the length since its
\* last hash (other programs, a server that ended, or the page itself with a text, a deletion or a
\* compaction), or its last poll has failed, or was overtaken by a file of its own: that it has sent a
\* file is never announced for itself.
NewsOnly ==
  [][alarms' # alarms => why \cap {"others", "ended", "page", "raced"} # {} \/ prev = -1]_vars

\* Without enough -v a server keeps the lock of its first request, and waits for it.
WaitsForItself == ~traced /\ at = "flock" /\ lock = "server"

\* src/src/web/daziweb.c:253, 301: every request that is accepted is answered, or the server ends, unless
\* the reads have split the request, or the server waits for the lock it has itself.
Answers == at = "parse" ~> (at \in {"accept", "exited"} \/ split \/ WaitsForItself)

=============================================================================
