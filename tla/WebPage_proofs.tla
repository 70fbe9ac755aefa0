---------------------------- MODULE WebPage_proofs ----------------------------
(***************************************************************************)
(* Proofs about the page that calls the web server, what it announces and  *)
(* what it deletes, and about what the server spares of the dazibao.       *)
(***************************************************************************)
EXTENDS Daziweb_proofs

Busy == at \notin {"accept", "exited"}

\* As long as the hash it has asked for is not answered, the page waits for it.
HashInv == (Busy /\ call = HashCall /\ gone = FALSE /\ direct = FALSE) => poll = TAKEN

\* What a page may announce, of what has happened since a hash.
Telling(kinds) == kinds \cap {"others", "ended", "page", "raced"} # {}

News == Telling(news)

\* The page is still to learn that its file was sent: it forgets its hash then.
Owed == Is(call, AddTLV(<<>>)) /\ at \in {"close", "tell"} /\ direct = FALSE /\ gone = FALSE

Seen(hash) == hash = Hash(file) \/ News \/ Owed

\* The page's last hash is that of the dazibao, and the next one as well once it is answered, or there
\* is news, or its last poll failed, or the page forgets the hash when it is answered.
NewsInv ==
  /\ poll >= 0 /\ prev # 0 /\ poll # prev => Telling(why) \/ prev = -1
  /\ poll < 0 /\ prev # 0 => Seen(prev) \/ prev = -1
  /\ poll >= 0 => Seen(poll)
  /\ Is(call, AddTLV(<<>>)) /\ gone = TRUE => News \/ (prev \in {0, -1} /\ poll < 0)

NoticeInv == HashInv /\ NewsInv

-----------------------------------------------------------------------------

\* What the types say of the hashes and of the two flags.
LEMMA PollIs ==
  ASSUME StateInv
  PROVE  /\ poll \in Int /\ prev \in Int
         /\ poll \in {NONE, ASKED, TAKEN} => poll < 0
         /\ Hash(file) \in Nat /\ Hash(file) = Len(file) + 1
         /\ gone \in BOOLEAN /\ direct \in BOOLEAN
  <1>1. Len(file) \in Nat
    BY SeqIs DEF StateInv, StateTypes
  <1>2. QED
    BY <1>1 DEF StateInv, StateTypes, StreamInv, StreamTypes, NONE, ASKED, TAKEN, Hash

\* What tells one kind of call from another.
LEMMA KindsDiffer ==
  ASSUME NEW c
  PROVE  /\ Is(c, AddTLV(<<>>)) => ~Is(c, Load) /\ ~Is(c, HashCall) /\ ~Is(c, Del(0)) /\ c # HashCall
         /\ ~Is(NoCall, AddTLV(<<>>)) /\ ~Is(NoCall, HashCall) /\ ~Is(HashCall, AddTLV(<<>>))
         /\ Is(HashCall, HashCall) /\ NoCall # HashCall
         /\ Is(c, Load) => ~Is(c, HashCall) /\ ~Is(c, Del(0))
         /\ Is(c, HashCall) => ~Is(c, Del(0))
  <1>1. <<"tlv", "add", "form">> # <<"tlv", "delete">> /\ <<"hash">> # <<>>
    <2>1. Len(<<"tlv", "add", "form">>) = 3 /\ Len(<<"tlv", "delete">>) = 2
      BY TuplesAre
    <2>2. Len(<<"hash">>) = 1 /\ Len(<<>>) = 0
      BY TuplesAre, EmptyIs
    <2>3. QED
      BY <2>1, <2>2
  <1>2. QED
    BY <1>1 DEF Is, AddTLV, Load, HashCall, Del, NoCall, Call, Path, NoPath

\* What is to be seen of the dazibao is still to be seen when it or the news grow.
LEMMA SeenStays ==
  ASSUME news \subseteq news', Len(file') = Len(file) \/ News', Owed => Owed' \/ News'
  PROVE  \A hash : Seen(hash) => (hash = Hash(file') \/ News' \/ Owed')
  BY DEF Seen, News, Telling, Hash

\* A step that the page does not see.
LEMMA UnseenKeeps ==
  ASSUME StateInv, NewsInv, StateInv', news \subseteq news', why' = why, prev' = prev,
         poll' = poll \/ (poll < 0 /\ poll' < 0),
         Len(file') = Len(file) \/ News', Owed => Owed' \/ News',
         Is(call', AddTLV(<<>>)) /\ gone' = TRUE => Is(call, AddTLV(<<>>)) /\ gone = TRUE
  PROVE  NewsInv'
  <1>1. \A hash : Seen(hash) => (hash = Hash(file') \/ News' \/ Owed')
    BY SeenStays
  <1>2. News => News'
    BY DEF News, Telling
  <1>3. poll \in Int /\ poll' \in Int
    BY PollIs, SMTT(30) DEF StateInv, StateTypes, NONE, ASKED, TAKEN
  <1>4. (poll' >= 0 <=> poll >= 0) /\ (poll >= 0 => poll' = poll) /\ (poll' < 0 <=> poll < 0)
    BY <1>3
  <1>5. poll' < 0 /\ prev' # 0 => Seen(prev)' \/ prev' = -1
    BY <1>1, <1>4 DEF NewsInv, Seen
  <1>6. poll' >= 0 => Seen(poll)'
    BY <1>1, <1>4 DEF NewsInv, Seen
  <1>7. QED
    BY <1>2, <1>4, <1>5, <1>6 DEF NewsInv

\* A call that is answered with an error, or not at all.
LEMMA FailedKeeps ==
  ASSUME StateInv, NewsInv, StateInv', NEW c, NEW st, st # Status.OK, Callback(c, st, <<>>),
         news \cup Raced(c) \subseteq news', why' = why,
         Is(c, HashCall) => poll < 0,
         Len(file') = Len(file) \/ News', Owed => Is(c, AddTLV(<<>>)),
         Is(call', AddTLV(<<>>)) /\ gone' = TRUE => Is(c, AddTLV(<<>>))
  PROVE  NewsInv'
  <1>1. News => News'
    BY DEF News, Telling
  <1>2. CASE Is(c, AddTLV(<<>>))
    <2>1. prev' = 0 /\ poll' = poll
      BY <1>2, KindsDiffer, CallbackIs
    <2>2. poll >= 0 => News'
      BY <1>2 DEF Raced, News, Telling
    <2>3. poll \in Int
      BY PollIs
    <2>4. poll < 0 \/ News'
      BY <2>2, <2>3
    <2>5. QED
      BY <2>1, <2>3, <2>4 DEF NewsInv, Seen
  <1>3. CASE ~Is(c, AddTLV(<<>>)) /\ Is(c, Load)
    <2>1. prev' = 0 /\ poll' = NONE
      BY <1>3, KindsDiffer, CallbackIs
    <2>2. QED
      BY <1>3, <2>1 DEF NewsInv, NONE
  <1>4. CASE ~Is(c, AddTLV(<<>>)) /\ ~Is(c, Load)
    <2>1. /\ prev' = prev /\ (poll' = poll \/ (poll' = -1 /\ poll < 0))
      BY <1>4, CallbackIs
    <2>2. \A hash : Seen(hash) => (hash = Hash(file') \/ News' \/ Owed')
      BY <1>4, SeenStays
    <2>3. poll \in Int
      BY PollIs
    <2>4. ~(Is(call', AddTLV(<<>>)) /\ gone' = TRUE)
      BY <1>4
    <2>5. poll' < 0 => poll < 0
      BY <2>1, <2>3
    <2>6. poll' < 0 /\ prev' # 0 => Seen(prev)' \/ prev' = -1
      BY <2>1, <2>2, <2>5 DEF NewsInv, Seen
    <2>7. poll' >= 0 => poll >= 0 /\ poll' = poll
      BY <2>1, <2>3
    <2>8. poll' >= 0 => Seen(poll)'
      BY <2>2, <2>7 DEF NewsInv, Seen
    <2>9. poll' >= 0 /\ prev' # 0 /\ poll' # prev' => Telling(why') \/ prev' = -1
      BY <2>1, <2>7 DEF NewsInv
    <2>10. QED
      BY <2>4, <2>6, <2>8, <2>9 DEF NewsInv
  <1>5. QED
    BY <1>2, <1>3, <1>4

\* NoticeInv, action by action.
LEMMA CheckHashNotices ==
  ASSUME StateInv, NoticeInv, StateInv', CheckHash
  PROVE  NoticeInv'
  <1>1. gone' = gone /\ call' = call /\ direct' = direct
    BY StreamStays DEF CheckHash, StateInv, serverVars
  <1>2. /\ news' = news /\ why' = why /\ prev' = prev /\ Len(file') = Len(file)
        /\ poll' = poll \/ (poll < 0 /\ poll' < 0)
        /\ Owed => Owed'
    BY <1>1 DEF CheckHash, NONE, ASKED, fileVars, serverVars, history, Owed
  <1>3. NewsInv'
    BY <1>1, <1>2, UnseenKeeps DEF NoticeInv
  <1>4. HashInv'
    BY <1>1 DEF CheckHash, NoticeInv, HashInv, StateInv, LockInv, ServerInv, Busy, serverVars,
             pageVars, NONE, TAKEN
  <1>5. QED
    BY <1>3, <1>4 DEF NoticeInv

LEMMA UnderstandNotices ==
  ASSUME StateInv, NoticeInv, StateInv', Understand
  PROVE  NoticeInv'
  <1>1. gone' = gone /\ call' = call /\ direct' = direct
    BY StreamStays DEF Understand, StateInv, serverVars
  <1>2. /\ news' = news /\ why' = why /\ prev' = prev /\ Len(file') = Len(file)
        /\ poll' = poll \/ (poll < 0 /\ poll' < 0)
        /\ Owed => Owed'
    BY <1>1 DEF Understand, fileVars, pageVars, history, Owed
  <1>3. NewsInv'
    BY <1>1, <1>2, UnseenKeeps DEF NoticeInv
  <1>4. HashInv'
    BY <1>1 DEF Understand, NoticeInv, HashInv, StateInv, LockInv, ServerInv, Busy, serverVars, pageVars
  <1>5. QED
    BY <1>3, <1>4 DEF NoticeInv

LEMMA OpenDzNotices ==
  ASSUME StateInv, NoticeInv, StateInv', OpenDz
  PROVE  NoticeInv'
  <1>1. gone' = gone /\ call' = call /\ direct' = direct
    BY StreamStays DEF OpenDz, StateInv, serverVars
  <1>2. /\ news' = news /\ why' = why /\ prev' = prev /\ Len(file') = Len(file)
        /\ poll' = poll \/ (poll < 0 /\ poll' < 0)
        /\ Owed => Owed'
    BY <1>1 DEF OpenDz, fileVars, pageVars, history, Owed
  <1>3. NewsInv'
    BY <1>1, <1>2, UnseenKeeps DEF NoticeInv
  <1>4. HashInv'
    BY <1>1 DEF OpenDz, NoticeInv, HashInv, StateInv, LockInv, ServerInv, Busy, serverVars, pageVars
  <1>5. QED
    BY <1>3, <1>4 DEF NoticeInv

LEMMA FlockNotices ==
  ASSUME StateInv, NoticeInv, StateInv', Flock
  PROVE  NoticeInv'
  <1>1. gone' = gone /\ call' = call /\ direct' = direct
    BY StreamStays DEF Flock, StateInv, serverVars
  <1>2. /\ news' = news /\ why' = why /\ prev' = prev /\ Len(file') = Len(file)
        /\ poll' = poll \/ (poll < 0 /\ poll' < 0)
        /\ Owed => Owed'
    BY <1>1 DEF Flock, pageVars, history, Owed
  <1>3. NewsInv'
    BY <1>1, <1>2, UnseenKeeps DEF NoticeInv
  <1>4. HashInv'
    BY <1>1 DEF Flock, NoticeInv, HashInv, StateInv, LockInv, ServerInv, Busy, serverVars, pageVars
  <1>5. QED
    BY <1>3, <1>4 DEF NoticeInv

LEMMA StartNotices ==
  ASSUME StateInv, NoticeInv, StateInv', Start
  PROVE  NoticeInv'
  <1>1. gone' = gone /\ call' = call /\ direct' = direct
    BY StreamStays DEF Start, StateInv, serverVars
  <1>2. /\ news' = news /\ why' = why /\ prev' = prev /\ Len(file') = Len(file)
        /\ poll' = poll \/ (poll < 0 /\ poll' < 0)
        /\ Owed => Owed'
    BY <1>1 DEF Start, fileVars, pageVars, history, Owed
  <1>3. NewsInv'
    BY <1>1, <1>2, UnseenKeeps DEF NoticeInv
  <1>4. HashInv'
    BY <1>1 DEF Start, NoticeInv, HashInv, StateInv, LockInv, ServerInv, Busy, serverVars, pageVars
  <1>5. QED
    BY <1>3, <1>4 DEF NoticeInv

LEMMA OtherOpenNotices ==
  ASSUME StateInv, NoticeInv, StateInv', OtherOpen
  PROVE  NoticeInv'
  <1>1. gone' = gone /\ call' = call /\ direct' = direct
    BY StreamStays DEF OtherOpen, StateInv, serverVars
  <1>2. /\ news' = news /\ why' = why /\ prev' = prev /\ Len(file') = Len(file)
        /\ poll' = poll \/ (poll < 0 /\ poll' < 0)
        /\ Owed => Owed'
    BY <1>1 DEF OtherOpen, serverVars, pageVars, history, Owed
  <1>3. NewsInv'
    BY <1>1, <1>2, UnseenKeeps DEF NoticeInv
  <1>4. HashInv'
    BY <1>1 DEF OtherOpen, NoticeInv, HashInv, StateInv, LockInv, ServerInv, Busy, serverVars, pageVars
  <1>5. QED
    BY <1>3, <1>4 DEF NoticeInv

LEMMA RemoveDzNotices ==
  ASSUME StateInv, NoticeInv, StateInv', RemoveDz
  PROVE  NoticeInv'
  <1>1. gone' = gone /\ call' = call /\ direct' = direct
    BY StreamStays DEF RemoveDz, StateInv, serverVars
  <1>2. /\ news' = news /\ why' = why /\ prev' = prev /\ Len(file') = Len(file)
        /\ poll' = poll \/ (poll < 0 /\ poll' < 0)
        /\ Owed => Owed'
    BY <1>1 DEF RemoveDz, serverVars, pageVars, history, Owed
  <1>3. NewsInv'
    BY <1>1, <1>2, UnseenKeeps DEF NoticeInv
  <1>4. HashInv'
    BY <1>1 DEF RemoveDz, NoticeInv, HashInv, StateInv, LockInv, ServerInv, Busy, serverVars, pageVars
  <1>5. QED
    BY <1>3, <1>4 DEF NoticeInv

LEMMA AskNotices ==
  ASSUME StateInv, NoticeInv, StateInv', NEW c \in Calls, Ask(c)
  PROVE  NoticeInv'
  <1>1. gone' = gone /\ call' = call /\ direct' = direct /\ at' = at /\ poll' = poll
    BY StreamStays DEF Ask, StateInv, serverVars
  <1>2. /\ news' = news /\ why' = why /\ prev' = prev /\ Len(file') = Len(file)
        /\ Owed => Owed'
    BY <1>1 DEF Ask, fileVars, history, Owed
  <1>3. NewsInv'
    BY <1>1, <1>2, UnseenKeeps DEF NoticeInv
  <1>4. HashInv'
    BY <1>1 DEF NoticeInv, HashInv, Busy
  <1>5. QED
    BY <1>3, <1>4 DEF NoticeInv

LEMMA AcceptNotices ==
  ASSUME StateInv, NoticeInv, StateInv', Accept
  PROVE  NoticeInv'
  <1>1. /\ at = "accept" /\ at' = "parse" /\ gone' = FALSE /\ gone = FALSE
        /\ news' = news /\ why' = why /\ prev' = prev /\ file' = file
    BY DEF Accept, Connect, fileVars, history, StateInv, ServerInv
  <1>2. \/ call' \in Calls /\ poll' = poll
        \/ poll = ASKED /\ poll' = TAKEN
    BY DEF Accept, StateInv, StateTypes
  <1>3. (poll' = poll \/ (poll < 0 /\ poll' < 0)) /\ ~Owed
    BY <1>1, <1>2 DEF Owed, ASKED, TAKEN
  <1>4. NewsInv'
    BY <1>1, <1>3, UnseenKeeps DEF NoticeInv
  <1>5. HashInv'
    <2>1. HashCall \notin Calls
      BY CallsAssumption DEF Is
    <2>2. QED
      BY <1>2, <2>1 DEF HashInv
  <1>6. QED
    BY <1>4, <1>5 DEF NoticeInv

LEMMA ReceiveNotices ==
  ASSUME StateInv, NoticeInv, StateInv', Receive
  PROVE  NoticeInv'
  <1>1. gone' = gone /\ call' = call /\ direct' = direct /\ at' = at /\ poll' = poll
    BY StreamStepKeeps DEF Receive, StateInv, serverVars, pageVars
  <1>2. /\ news' = news /\ why' = why /\ prev' = prev /\ Len(file') = Len(file)
        /\ Owed => Owed'
    BY <1>1 DEF Receive, fileVars, pageVars, history, Owed
  <1>3. NewsInv'
    BY <1>1, <1>2, UnseenKeeps DEF NoticeInv
  <1>4. HashInv'
    BY <1>1 DEF NoticeInv, HashInv, Busy
  <1>5. QED
    BY <1>3, <1>4 DEF NoticeInv

\* A change that others make, by what it leaves.
LEMMA ChangedNotices ==
  ASSUME StateInv, NoticeInv, StateInv', UNCHANGED <<streamVars, serverVars, pageVars, why>>,
         news' = news \cup NewsOf(file', "others")
  PROVE  NoticeInv'
  <1>1. gone' = gone /\ call' = call /\ direct' = direct /\ at' = at /\ poll' = poll /\ prev' = prev
    BY StreamStays DEF StateInv, serverVars, pageVars
  <1>2. Len(file') = Len(file) \/ News'
    BY DEF NewsOf, News, Telling
  <1>3. NewsInv'
    BY <1>1, <1>2, UnseenKeeps DEF NoticeInv, Owed
  <1>4. HashInv'
    BY <1>1 DEF NoticeInv, HashInv, Busy
  <1>5. QED
    BY <1>3, <1>4 DEF NoticeInv

LEMMA OtherWriteNotices ==
  ASSUME StateInv, NoticeInv, StateInv', NEW g, NEW what, OtherWrite(g, what)
  PROVE  NoticeInv'
  BY ChangedNotices DEF OtherWrite

LEMMA OtherCloseNotices ==
  ASSUME StateInv, NoticeInv, StateInv', OtherClose
  PROVE  NoticeInv'
  BY ChangedNotices DEF OtherClose

LEMMA CreateDzNotices ==
  ASSUME StateInv, NoticeInv, StateInv', CreateDz
  PROVE  NoticeInv'
  BY ChangedNotices DEF CreateDz

LEMMA DiesNotices ==
  ASSUME StateInv, NoticeInv, StateInv', NEW g, Dies(g)
  PROVE  NoticeInv'
  <1>1. /\ gone = TRUE /\ at' = "exited" /\ call' = NoCall /\ file' = Unclosed(g)
        /\ poll' = poll /\ prev' = prev /\ why' = why
        /\ news' = news \cup NewsOf(Unclosed(g), "ended")
    BY PollIs DEF Dies, Ends, Done
  <1>2. Len(file') = Len(file) \/ News'
    BY <1>1 DEF NewsOf, News, Telling
  <1>3. ~Owed /\ ~Is(call', AddTLV(<<>>))
    BY <1>1, KindsDiffer DEF Owed
  <1>4. NewsInv'
    BY <1>1, <1>2, <1>3, UnseenKeeps DEF NoticeInv
  <1>5. HashInv'
    BY <1>1 DEF HashInv, Busy
  <1>6. QED
    BY <1>4, <1>5 DEF NoticeInv

LEMMA StutterNotices ==
  ASSUME StateInv, NoticeInv, StateInv', UNCHANGED vars
  PROVE  NoticeInv'
  <1>1. UNCHANGED <<streamVars, fileVars, serverVars, pageVars, history>>
    BY DEF vars
  <1>2. gone' = gone /\ call' = call /\ direct' = direct /\ at' = at /\ poll' = poll
    BY <1>1, StreamStays DEF StateInv, serverVars, pageVars
  <1>3. /\ news' = news /\ why' = why /\ prev' = prev /\ Len(file') = Len(file)
        /\ Owed => Owed'
    BY <1>1, <1>2 DEF fileVars, pageVars, history, Owed
  <1>4. NewsInv'
    BY <1>2, <1>3, UnseenKeeps DEF NoticeInv
  <1>5. HashInv'
    BY <1>2 DEF NoticeInv, HashInv, Busy
  <1>6. QED
    BY <1>4, <1>5 DEF NoticeInv

LEMMA HashCallbackNotices ==
  ASSUME StateInv, NoticeInv, StateInv', HashCallback
  PROVE  NoticeInv'
  <1>1. gone' = gone /\ call' = call /\ direct' = direct /\ at' = at /\ file' = file
    BY StreamStays DEF HashCallback, StateInv, fileVars, serverVars
  <1>2. /\ poll >= -1 /\ poll \in Int /\ prev' = poll /\ poll' = NONE /\ why' = why
        /\ news' = news
    BY PollIs DEF HashCallback
  <1>3. poll >= 0 \/ poll = -1
    BY <1>2
  <1>4. poll >= 0 => Seen(poll)
    BY DEF NoticeInv, NewsInv
  <1>5. (News => News') /\ (Owed => Owed')
    BY <1>1, <1>2 DEF News, Telling, Owed
  <1>6. Seen(prev)' \/ prev' = -1
    BY <1>1, <1>2, <1>3, <1>4, <1>5 DEF Seen
  <1>7. poll' < 0
    BY <1>2 DEF NONE
  <1>8. Is(call', AddTLV(<<>>)) /\ gone' = TRUE => News' \/ prev' = -1
    BY <1>1, <1>2, <1>3, <1>5 DEF NoticeInv, NewsInv
  <1>9. NewsInv'
    BY <1>2, <1>6, <1>7, <1>8 DEF NewsInv, NONE
  <1>10. HashInv'
    BY <1>1, <1>2 DEF NoticeInv, HashInv, Busy, TAKEN
  <1>11. QED
    BY <1>9, <1>10 DEF NoticeInv

LEMMA CloseDzNotices ==
  ASSUME StateInv, NoticeInv, StateInv', CloseDz
  PROVE  NoticeInv'
  <1>1. /\ at = "close" /\ file' = file /\ news' = news /\ why' = why /\ poll' = poll /\ prev' = prev
    BY DEF CloseDz, pageVars, history
  <1>2. CASE direct
    <2>1. at' = "accept" /\ call' = NoCall
      BY <1>2 DEF CloseDz, Done
    <2>2. ~Owed /\ ~Is(call', AddTLV(<<>>))
      BY <1>2, <2>1, KindsDiffer DEF Owed
    <2>3. NewsInv'
      BY <1>1, <2>2, UnseenKeeps DEF NoticeInv
    <2>4. HashInv'
      BY <2>1 DEF HashInv, Busy
    <2>5. QED
      BY <2>3, <2>4 DEF NoticeInv
  <1>3. CASE ~direct
    <2>1. at' = "tell" /\ gone' = gone /\ call' = call /\ direct' = direct
      BY <1>3, StreamStays DEF CloseDz, StateInv
    <2>2. NewsInv'
      BY <1>1, <2>1, UnseenKeeps DEF NoticeInv, Owed
    <2>3. HashInv'
      BY <1>1, <2>1 DEF NoticeInv, HashInv, Busy
    <2>4. QED
      BY <2>2, <2>3 DEF NoticeInv
  <1>4. QED
    BY <1>2, <1>3

\* A hash that is not answered yet is waited for.
LEMMA HashWaits ==
  ASSUME StateInv, HashInv, Busy, gone = FALSE, direct = FALSE
  PROVE  Is(call, HashCall) => poll < 0
  BY HashAsked, PollIs DEF StateInv, ServerInv, HashInv, Busy

LEMMA TellNotices ==
  ASSUME StateInv, NoticeInv, StateInv', Tell
  PROVE  NoticeInv'
  <1>1. /\ at = "tell" /\ at' = "accept" /\ call' = NoCall /\ file' = file /\ why' = why
        /\ answer # Status.OK /\ direct = FALSE
    BY DEF Tell, Done, fileVars, StateInv, ServerInv
  <1>2. ~Is(call', AddTLV(<<>>))
    BY <1>1, KindsDiffer
  <1>3. CASE gone
    <2>1. poll' = poll /\ prev' = prev /\ news' = news
      BY <1>3 DEF Tell
    <2>2. ~Owed
      BY <1>3 DEF Owed
    <2>3. QED
      BY <1>1, <1>2, <2>1, <2>2, UnseenKeeps DEF NoticeInv, HashInv, Busy
  <1>4. CASE ~gone
    <2>1. Callback(call, answer, <<>>) /\ news' = news \cup Raced(call)
      BY <1>4 DEF Tell
    <2>2. Is(call, HashCall) => poll < 0
      BY <1>1, <1>4, HashWaits, PollIs DEF NoticeInv, Busy
    <2>3. NewsInv'
      BY <1>1, <1>2, <2>1, <2>2, FailedKeeps DEF NoticeInv, Owed
    <2>4. QED
      BY <1>1, <2>3 DEF NoticeInv, HashInv, Busy
  <1>5. QED
    BY <1>3, <1>4

LEMMA BreaksNotices ==
  ASSUME StateInv, NoticeInv, StateInv', NEW g, Breaks(g)
  PROVE  NoticeInv'
  <1>1. /\ Ends(g) /\ why' = why
        /\ IF gone \/ direct
           THEN news' = news \cup NewsOf(g, "ended") /\ UNCHANGED <<shown, prev, poll, alarms>>
           ELSE /\ news' = news \cup NewsOf(g, "ended") \cup Raced(call)
                /\ Callback(call, 0, <<>>)
    BY DEF Breaks
  <1>2. at' = "exited" /\ call' = NoCall /\ file' = g
    BY <1>1 DEF Ends, Done
  <1>3. ~Is(call', AddTLV(<<>>))
    BY <1>2, KindsDiffer
  <1>4. Len(file') = Len(file) \/ News'
    BY <1>1, <1>2 DEF NewsOf, News, Telling
  <1>5. CASE gone \/ direct
    <2>1. ~Owed
      BY <1>5 DEF Owed
    <2>2. NewsInv'
      BY <1>1, <1>3, <1>4, <1>5, <2>1, UnseenKeeps DEF NoticeInv
    <2>3. QED
      BY <1>2, <2>2 DEF NoticeInv, HashInv, Busy
  <1>6. CASE ~(gone \/ direct)
    <2>1. Callback(call, 0, <<>>) /\ news \cup Raced(call) \subseteq news' /\ 0 # Status.OK
      BY <1>1, <1>6, StatusIs
    <2>2. Is(call, HashCall) => poll < 0
      <3>1. CASE Busy
        BY <1>6, <3>1, HashWaits, PollIs DEF NoticeInv
      <3>2. CASE ~Busy
        BY <3>2, KindsDiffer DEF Busy, StateInv, ServerInv
      <3>3. QED
        BY <3>1, <3>2
    <2>3. NewsInv'
      BY <1>1, <1>3, <1>4, <2>1, <2>2, FailedKeeps DEF NoticeInv, Owed
    <2>4. QED
      BY <1>2, <2>3 DEF NoticeInv, HashInv, Busy
  <1>7. QED
    BY <1>5, <1>6

LEMMA RefuseNotices ==
  ASSUME StateInv, NoticeInv, StateInv', Refuse
  PROVE  NoticeInv'
  <1>1. /\ at = "exited" /\ at' = at /\ call' = call /\ call = NoCall /\ file' = file /\ why' = why
    BY DEF Refuse, fileVars, serverVars, StateInv, ServerInv
  <1>2. ~Owed /\ ~Is(call', AddTLV(<<>>))
    BY <1>1, KindsDiffer DEF Owed
  <1>3. HashInv'
    BY <1>1 DEF HashInv, Busy
  <1>4. CASE asked # NoCall /\ Callback(asked, 0, <<>>) /\ news' = news \cup Raced(asked)
    <2>1. ~Is(asked, HashCall) /\ 0 # Status.OK
      BY <1>4, StatusIs, CallsAssumption DEF StateInv, StateTypes
    <2>2. NewsInv'
      BY <1>1, <1>2, <1>4, <2>1, FailedKeeps DEF NoticeInv
    <2>3. QED
      BY <1>3, <2>2 DEF NoticeInv
  <1>5. CASE poll = ASKED /\ poll' = -1 /\ UNCHANGED <<asked, shown, prev, alarms, news>>
    <2>1. poll < 0 /\ poll' < 0
      BY <1>5 DEF ASKED
    <2>2. NewsInv'
      BY <1>1, <1>2, <1>5, <2>1, UnseenKeeps DEF NoticeInv
    <2>3. QED
      BY <1>3, <2>2 DEF NoticeInv
  <1>6. QED
    BY <1>4, <1>5 DEF Refuse

LEMMA LeaveEarlyNotices ==
  ASSUME StateInv, NoticeInv, StateInv', LeaveEarly
  PROVE  NoticeInv'
  <1>1. /\ Busy /\ direct = FALSE /\ gone = FALSE /\ gone' = TRUE /\ call' = call
        /\ file' = file /\ why' = why
        /\ Callback(call, 0, <<>>) /\ news' = news \cup Raced(call) /\ 0 # Status.OK
    BY StatusIs, PollIs DEF LeaveEarly, Leave, Busy, fileVars, serverVars
  <1>2. Is(call, HashCall) => poll < 0
    BY <1>1, HashWaits DEF NoticeInv
  <1>3. NewsInv'
    BY <1>1, <1>2, FailedKeeps DEF NoticeInv, Owed
  <1>4. HashInv'
    BY <1>1 DEF HashInv
  <1>5. QED
    BY <1>3, <1>4 DEF NoticeInv

LEMMA RouteRequestNotices ==
  ASSUME StateInv, NoticeInv, StateInv', RouteRequest
  PROVE  NoticeInv'
  <1>1. PICK res \in Outcomes :
          LET tells == res.direct /\ ~gone
          IN  /\ file' = res.kept /\ direct' = res.direct
              /\ IF tells THEN Callback(call, res.status, res.says)
                          ELSE UNCHANGED <<shown, prev, poll, alarms>>
              /\ Recorded(res, tells)
    BY DEF RouteRequest
  <1>2. /\ Serving /\ Busy /\ direct = FALSE /\ at' = "close" /\ gone' = gone /\ call' = call
    BY StreamStays DEF RouteRequest, Serving, Busy, StateInv, ServerInv
  <1>3. PICK tells : tells = (res.direct /\ ~gone)
    OBVIOUS
  <1>4. PICK now : now = news \cup NewsOf(res.kept, Who) \cup (IF tells THEN Raced(call) ELSE {})
    OBVIOUS
  <1>5. ~Owed
    BY <1>2 DEF Owed, Serving
  <1>6. CASE tells /\ Is(call, HashCall)
    <2>1. /\ res.kept = Mapping /\ (res.status = Status.OK => res.says[1] = Hash(Mapping))
      BY <1>2, <1>6, HashOutcome
    <2>2. gone = FALSE /\ gone' = FALSE
      BY <1>2, <1>3, <1>6, PollIs
    <2>3. poll < 0
      BY <1>2, <1>6, <2>2, HashWaits DEF NoticeInv
    <2>4. prev # 0 => prev = Hash(file) \/ News \/ prev = -1
      BY <1>5, <2>3 DEF NoticeInv, NewsInv, Seen
    <2>5. /\ prev' = prev /\ poll' = IF res.status = Status.OK THEN res.says[1] ELSE -1
      BY <1>1, <1>3, <1>6, KindsDiffer, CallbackIs
    <2>6. Len(file') # Len(file) => "page" \in now
      BY <1>1, <1>4, <1>6, KindsDiffer DEF NewsOf, Who
    <2>7. prev # 0 => prev = Hash(file') \/ Telling(now) \/ prev = -1
      BY <1>4, <2>4, <2>6 DEF News, Telling, Hash
    <2>8. ~Is(call', AddTLV(<<>>)) /\ HashInv'
      <3>1. res.direct
        BY <1>3, <1>6
      <3>2. direct' # FALSE
        BY <1>1, <3>1
      <3>3. QED
        BY <1>2, <1>6, <3>2, KindsDiffer DEF HashInv
    <2>9. CASE res.status = Status.OK
      <3>1. poll' = Hash(file') /\ why' = now
        BY <1>1, <1>3, <1>4, <1>6, <2>1, <2>5, <2>9 DEF Recorded
      <3>2. poll' \in Nat
        BY <3>1, PollIs, SeqIs DEF StateInv, StateTypes, Hash
      <3>3. poll' >= 0 /\ prev' # 0 /\ poll' # prev' => Telling(why') \/ prev' = -1
        BY <2>5, <2>7, <3>1
      <3>4. Seen(poll)'
        BY <3>1 DEF Seen
      <3>5. NewsInv'
        BY <2>8, <3>2, <3>3, <3>4 DEF NewsInv
      <3>6. QED
        BY <2>8, <3>5 DEF NoticeInv
    <2>10. CASE res.status # Status.OK
      <3>1. news' = now /\ poll' = -1
        BY <1>1, <1>3, <1>4, <2>5, <2>10 DEF Recorded
      <3>2. prev' # 0 => Seen(prev)' \/ prev' = -1
        BY <2>5, <2>7, <3>1 DEF Seen, News, Telling
      <3>3. NewsInv'
        BY <2>8, <3>1, <3>2 DEF NewsInv
      <3>4. QED
        BY <2>8, <3>3 DEF NoticeInv
    <2>11. QED
      BY <2>9, <2>10
  <1>7. CASE ~(tells /\ Is(call, HashCall))
    <2>1. news' = now /\ why' = why
      BY <1>1, <1>3, <1>4, <1>7 DEF Recorded
    <2>2. news \subseteq news' /\ (News => News')
      BY <1>4, <2>1 DEF News, Telling
    <2>3. ~Is(call, AddTLV(<<>>)) => Len(file') = Len(file) \/ News'
      <3>1. ~Is(call, AddTLV(<<>>)) /\ Len(file') # Len(file) => "page" \in now
        BY <1>1, <1>4 DEF NewsOf, Who
      <3>2. QED
        BY <2>1, <3>1 DEF News, Telling
    <2>4. CASE ~tells
      <3>1. poll' = poll /\ prev' = prev
        BY <1>1, <1>3, <2>4
      <3>2. HashInv'
        <4>1. call = HashCall /\ gone = FALSE => res.direct = TRUE
          BY <1>2, KindsDiffer, HashOutcome
        <4>2. call = HashCall => gone = TRUE
          BY <1>3, <2>4, <4>1, PollIs
        <4>3. QED
          BY <1>2, <4>2 DEF HashInv
      <3>3. CASE ~Is(call, AddTLV(<<>>))
        BY <1>2, <1>5, <2>1, <2>2, <2>3, <3>1, <3>2, <3>3, UnseenKeeps DEF NoticeInv
      <3>4. CASE Is(call, AddTLV(<<>>)) /\ gone = TRUE
        <4>1. poll \in Int /\ (News \/ (prev \in {0, -1} /\ poll < 0))
          BY <3>4, PollIs DEF NoticeInv, NewsInv
        <4>2. poll' >= 0 /\ prev' # 0 /\ poll' # prev' => Telling(why') \/ prev' = -1
          BY <2>1, <3>1 DEF NoticeInv, NewsInv
        <4>3. NewsInv'
          BY <2>2, <3>1, <4>1, <4>2 DEF NewsInv, Seen
        <4>4. QED
          BY <3>2, <4>3 DEF NoticeInv
      <3>5. CASE Is(call, AddTLV(<<>>)) /\ gone = FALSE
        <4>1. res.direct = FALSE
          BY <1>2, <1>3, <2>4, <3>5, OutcomeIs
        <4>2. Owed'
          BY <1>1, <1>2, <3>5, <4>1 DEF Owed
        <4>3. poll' >= 0 /\ prev' # 0 /\ poll' # prev' => Telling(why') \/ prev' = -1
          BY <2>1, <3>1 DEF NoticeInv, NewsInv
        <4>4. NewsInv'
          BY <1>2, <3>5, <4>2, <4>3 DEF NewsInv, Seen
        <4>5. QED
          BY <3>2, <4>4 DEF NoticeInv
      <3>6. QED
        BY <3>3, <3>4, <3>5, PollIs
    <2>5. CASE tells /\ ~Is(call, HashCall)
      <3>1. Callback(call, res.status, res.says) /\ gone = FALSE /\ gone' = FALSE
        BY <1>1, <1>2, <1>3, <2>5, PollIs
      <3>2. HashInv'
        BY <1>2, <2>5, KindsDiffer DEF HashInv
      <3>3. CASE Is(call, AddTLV(<<>>))
        <4>1. prev' = 0 /\ poll' = poll /\ poll \in Int
          BY <3>1, <3>3, KindsDiffer, CallbackIs, PollIs
        <4>2. poll >= 0 => News'
          BY <1>4, <2>1, <2>5, <3>3 DEF Raced, News, Telling
        <4>3. NewsInv'
          BY <3>1, <4>1, <4>2 DEF NewsInv, Seen
        <4>4. QED
          BY <3>2, <4>3 DEF NoticeInv
      <3>4. CASE Is(call, Load)
        <4>1. prev' = 0 /\ poll' = NONE
          BY <3>1, <3>4, KindsDiffer, CallbackIs
        <4>2. NewsInv'
          BY <3>1, <4>1 DEF NewsInv, NONE
        <4>3. QED
          BY <3>2, <4>2 DEF NoticeInv
      <3>5. CASE ~Is(call, AddTLV(<<>>)) /\ ~Is(call, Load)
        <4>1. prev' = prev /\ poll' = poll
          BY <2>5, <3>1, <3>5, CallbackIs
        <4>2. NewsInv'
          BY <1>2, <1>5, <2>1, <2>2, <2>3, <3>5, <4>1, UnseenKeeps DEF NoticeInv
        <4>3. QED
          BY <3>2, <4>2 DEF NoticeInv
      <3>6. QED
        BY <3>3, <3>4, <3>5
    <2>6. QED
      BY <1>7, <2>4, <2>5
  <1>8. QED
    BY <1>6, <1>7

\* NoticeInv at first.
LEMMA NoticeInit ==
  ASSUME Init
  PROVE  NoticeInv
  BY DEF Init, NoticeInv, HashInv, NewsInv, Busy, NoCall, Call, Is, AddTLV, NONE

\* NoticeInv step by step.
LEMMA NoticeStep ==
  ASSUME StateInv, NoticeInv, [Next]_vars
  PROVE  NoticeInv'
  <1>1. StateInv'
    BY StateStep
  <1>2. CASE (\E c \in Calls : Ask(c)) \/ CheckHash \/ HashCallback \/ LeaveEarly
    BY <1>1, <1>2, AskNotices, CheckHashNotices, HashCallbackNotices, LeaveEarlyNotices
  <1>3. CASE Server
    BY <1>1, <1>3, AcceptNotices, ReceiveNotices, UnderstandNotices, OpenDzNotices, FlockNotices,
       RouteRequestNotices, CloseDzNotices, TellNotices DEF Server
  <1>4. CASE PageAborts \/ RequestDies \/ TellDies \/ SigInt
    BY <1>1, <1>4, DiesNotices, BreaksNotices DEF PageAborts, RequestDies, TellDies, SigInt
  <1>5. CASE Start \/ Refuse
    BY <1>1, <1>5, StartNotices, RefuseNotices
  <1>6. CASE OtherAdds \/ OtherRemoves \/ OtherCompacts
    BY <1>1, <1>6, OtherWriteNotices DEF OtherAdds, OtherRemoves, OtherCompacts
  <1>7. CASE OtherOpen \/ OtherClose \/ RemoveDz \/ CreateDz
    BY <1>1, <1>7, OtherOpenNotices, OtherCloseNotices, RemoveDzNotices, CreateDzNotices
  <1>8. CASE UNCHANGED vars
    BY <1>1, <1>8, StutterNotices
  <1>9. QED
    BY <1>2, <1>3, <1>4, <1>5, <1>6, <1>7, <1>8 DEF Next

\* What a page knows of the dazibao: its hash is the last one, or there is news.
THEOREM NoticeInvariance == Spec => []NoticeInv
  <1>1. Init => NoticeInv
    BY NoticeInit
  <1>2. StateInv /\ NoticeInv /\ [Next]_vars => NoticeInv'
    BY NoticeStep
  <1>3. QED
    BY <1>1, <1>2, StateInvariance, PTL DEF Spec

\* The number of changes announced grows only when check_hash has a hash that is another.
LEMMA AlarmStep ==
  ASSUME StateInv, NoticeInv, [Next]_vars, alarms' # alarms
  PROVE  Telling(why) \/ prev = -1
  <1>1. CASE HashCallback
    <2>1. IsChange(poll)
      BY <1>1 DEF HashCallback
    <2>2. prev # 0 /\ poll > -1 /\ poll # prev
      BY <2>1 DEF IsChange
    <2>3. poll >= 0
      BY <2>2, PollIs
    <2>4. QED
      BY <2>2, <2>3 DEF NoticeInv, NewsInv
  <1>2. ASSUME NEW c, NEW st, NEW says, Callback(c, st, says)
        PROVE  alarms' = alarms
    BY <1>2, CallbackIs
  <1>3. CASE (\E c \in Calls : Ask(c)) \/ CheckHash \/ LeaveEarly
    BY <1>2, <1>3 DEF Ask, CheckHash, LeaveEarly
  <1>4. CASE RouteRequest
    BY <1>2, <1>4 DEF RouteRequest
  <1>5. CASE Tell
    BY <1>2, <1>5 DEF Tell
  <1>6. CASE Accept \/ Receive \/ Understand \/ OpenDz \/ Flock \/ CloseDz
    BY <1>6 DEF Accept, Receive, Understand, OpenDz, Flock, CloseDz, pageVars
  <1>7. CASE RequestDies \/ TellDies
    BY <1>7 DEF RequestDies, TellDies, Dies
  <1>8. CASE PageAborts \/ SigInt
    BY <1>2, <1>8 DEF PageAborts, SigInt, Breaks
  <1>9. CASE Refuse \/ Start
    BY <1>2, <1>9 DEF Refuse, Start, pageVars
  <1>10. CASE OtherAdds \/ OtherRemoves \/ OtherCompacts
    BY <1>10 DEF OtherAdds, OtherRemoves, OtherCompacts, OtherWrite, pageVars
  <1>11. CASE OtherOpen \/ OtherClose \/ RemoveDz \/ CreateDz
    BY <1>11 DEF OtherOpen, OtherClose, RemoveDz, CreateDz, pageVars
  <1>12. CASE UNCHANGED vars
    BY <1>12 DEF vars, pageVars
  <1>13. QED
    BY <1>1, <1>3, <1>4, <1>5, <1>6, <1>7, <1>8, <1>9, <1>10, <1>11, <1>12 DEF Next, Server

\* src/public_html/dz.js:220: when a page announces a change, somebody has changed the length since its
\* last hash, be it the page itself with a text, a deletion or a compaction, or its last poll has failed
\* or was overtaken by a file of its own; the sending of a file is not announced for itself.
THEOREM AnnouncesNews == Spec => NewsOnly
  <1>1. StateInv /\ NoticeInv /\ [Next]_vars =>
          [alarms' # alarms => why \cap {"others", "ended", "page", "raced"} # {} \/ prev = -1]_vars
    BY AlarmStep DEF Telling
  <1>2. QED
    BY <1>1, StateInvariance, NoticeInvariance, PTL DEF Spec, NewsOnly

-----------------------------------------------------------------------------
(* What the page shows. *)

\* f has v at slot o, or a pad that is not the last slot: nothing is added there as long as f is
\* not cut.
KeptAt(f, o, v) == o \in DOMAIN f /\ (f[o] = v \/ (f[o] = PAD /\ o < Len(f)))

\* Another program knows of all the file, or of all but pads at its end.
TailInv == lock \in {"other", "changed"} => \A i \in DOMAIN file : i > olen => file[i] = PAD

ShownInv ==
  since = {} => \A o \in DOMAIN shown : shown[o] # PAD => o <= len /\ KeptAt(file, o, shown[o])

PageInv == TailInv /\ ShownInv

\* An addition or a deletion keeps what it does not cut, whatever length the file is taken to have.
LEMMA KeptStays ==
  ASSUME IsSeq(file), NEW n \in Nat, NEW f, f = Resized(file, n),
         NEW o, NEW v, v # PAD, KeptAt(file, o, v), o <= n \/ file[o] = PAD,
         NEW g, IsSeq(g), Len(g) >= Len(file),
         \/ g = f
         \/ \E w : g \in Added(f, w)
         \/ \E r \in DOMAIN f : g \in Removed(f, r)
  PROVE  KeptAt(g, o, v)
  <1>1. PICK m \in Nat : m = Len(file) /\ DOMAIN file = 1 .. m
    BY SeqIs
  <1>2. PICK l \in Nat : l = Len(g) /\ DOMAIN g = 1 .. l /\ l >= m
    BY <1>1, SeqIs
  <1>3. IsSeq(f) /\ Len(f) = n /\ \A i \in 1 .. n : f[i] = IF i <= m THEN file[i] ELSE PAD
    BY <1>1, ResizedIs
  <1>4. o \in 1 .. m /\ (file[o] = v \/ (file[o] = PAD /\ o < m))
    BY <1>1 DEF KeptAt
  <1>5. CASE g = f
    <2>1. o \in 1 .. n /\ f[o] = file[o] /\ l = n
      BY <1>2, <1>3, <1>4, <1>5
    <2>2. QED
      BY <1>2, <1>4, <1>5, <2>1 DEF KeptAt
  <1>6. ASSUME NEW w, g \in Added(f, w)
        PROVE  KeptAt(g, o, v)
    <2>1. PICK s \in 1 .. Len(f) + 1 : /\ Len(g) = s /\ g[s] = w
                                       /\ \A i \in 1 .. s - 1 : g[i] = f[i]
                                       /\ \A i \in s .. Len(f) : f[i] = PAD
      BY <1>3, <1>6, AddedIs
    <2>2. s \in 1 .. n + 1 /\ s = l
      BY <1>2, <1>3, <2>1
    <2>3. CASE o < s
      <3>1. o \in 1 .. s - 1 /\ o \in 1 .. n
        BY <1>4, <2>2, <2>3
      <3>2. g[o] = file[o]
        BY <1>3, <1>4, <2>1, <3>1
      <3>3. QED
        BY <1>2, <1>4, <2>2, <3>1, <3>2 DEF KeptAt
    <2>4. CASE o >= s
      <3>1. o = m /\ s = m /\ file[o] = v
        BY <1>2, <1>4, <2>2, <2>4
      <3>2. o <= n /\ o \in 1 .. n
        BY <1>4, <3>1
      <3>3. f[o] = PAD /\ f[o] = file[o]
        BY <1>3, <1>4, <2>1, <3>1, <3>2
      <3>4. QED
        BY <3>1, <3>3
    <2>5. QED
      BY <1>4, <2>2, <2>3, <2>4
  <1>7. ASSUME NEW r \in DOMAIN f, g \in Removed(f, r)
        PROVE  KeptAt(g, o, v)
    <2>1. r \in 1 .. n
      BY <1>3, SeqIs
    <2>2. \/ /\ r = n
             /\ \E s \in 1 .. r : Len(g) = s - 1 /\ \A i \in 1 .. s - 1 : g[i] = f[i]
          \/ /\ r # n /\ Len(g) = n /\ g[r] = PAD
             /\ \A i \in 1 .. n : i # r => g[i] = f[i]
      BY <1>3, <1>7, <2>1, RemovedIs
    <2>3. CASE r = n /\ \E s \in 1 .. r : Len(g) = s - 1 /\ \A i \in 1 .. s - 1 : g[i] = f[i]
      <3>1. PICK s \in 1 .. n : Len(g) = s - 1 /\ \A i \in 1 .. s - 1 : g[i] = f[i]
        BY <2>3
      <3>2. o \in 1 .. s - 1 /\ o \in 1 .. n /\ l = s - 1
        BY <1>2, <1>4, <3>1
      <3>3. g[o] = file[o]
        BY <1>3, <1>4, <3>1, <3>2
      <3>4. QED
        BY <1>2, <1>4, <3>2, <3>3 DEF KeptAt
    <2>4. CASE r # n /\ Len(g) = n /\ g[r] = PAD /\ \A i \in 1 .. n : i # r => g[i] = f[i]
      <3>1. l = n /\ o \in 1 .. n
        BY <1>2, <1>4, <2>4
      <3>2. o # r => g[o] = file[o]
        BY <1>3, <1>4, <2>4, <3>1
      <3>3. o = r => g[o] = PAD /\ o < n
        BY <2>1, <2>4
      <3>4. QED
        BY <1>2, <1>4, <3>1, <3>2, <3>3 DEF KeptAt
    <2>5. QED
      BY <2>2, <2>3, <2>4
  <1>8. QED
    BY <1>5, <1>6, <1>7

\* Pads at the end keep everything.
LEMMA KeptLonger ==
  ASSUME NEW f, IsSeq(f), NEW n \in Nat, n >= Len(f), NEW o, NEW v, KeptAt(f, o, v)
  PROVE  KeptAt(Resized(f, n), o, v)
  <1>1. PICK m \in Nat : m = Len(f) /\ DOMAIN f = 1 .. m
    BY SeqIs
  <1>2. PICK g : g = Resized(f, n)
    OBVIOUS
  <1>3. /\ Len(g) = n /\ DOMAIN g = 1 .. n
        /\ \A i \in 1 .. n : g[i] = IF i <= m THEN f[i] ELSE PAD
    BY <1>1, <1>2, ResizedIs, SeqIs
  <1>4. o \in 1 .. m /\ o \in 1 .. n /\ g[o] = f[o]
    BY <1>1, <1>3 DEF KeptAt
  <1>5. QED
    BY <1>1, <1>2, <1>3, <1>4 DEF KeptAt

\* So do those a file is stretched with.
LEMMA KeptUnclosed ==
  ASSUME NEW f, IsSeq(f), NEW o, NEW v, KeptAt(f, o, v)
  PROVE  KeptAt(Unclosed(f), o, v)
  <1>1. PICK n \in Nat : Stretched(f) = Resized(f, n) /\ n >= Len(f)
    BY StretchedIs
  <1>2. KeptAt(Stretched(f), o, v)
    BY <1>1, KeptLonger
  <1>3. QED
    BY <1>2 DEF Unclosed

\* The handlers that delete and compact are those of the calls that do.
LEMMA KindServed ==
  ASSUME StateInv, Serving
  PROVE  /\ HandlerOf(Registered, req.method, req.path) = "compact_dz" => Is(call, Compact)
         /\ HandlerOf(Registered, req.method, req.path) = "rm_tlv" => Is(call, Del(0))
  <1>1. /\ req.method = call.method /\ req.path = call.path /\ call \in Calls \cup {HashCall}
        /\ Registered \in {Routes, <<>>}
    BY DEF StateInv, StreamInv, Understood, ServerInv, Serving, Registered
  <1>2. PICK handler : handler = HandlerOf(Registered, req.method, req.path)
    OBVIOUS
  <1>3. SUFFICES ASSUME handler \in {"rm_tlv", "compact_dz"}
                 PROVE  /\ handler = "compact_dz" => Is(call, Compact)
                        /\ handler = "rm_tlv" => Is(call, Del(0))
    BY <1>2
  <1>4. PICK i \in DOMAIN Routes :
               /\ handler = Routes[i].handler
               /\ IsPrefix(Routes[i].dir,
                           IF call.path = NoPath THEN <<"index.html">> ELSE call.path.dir)
               /\ Routes[i].method = IF call.method = "HEAD" THEN "GET" ELSE call.method
    BY <1>1, <1>2, <1>3, RouteOf
  <1>5. /\ Routes[i].method = "POST"
        /\ handler = "compact_dz" => Routes[i].dir = <<"compact">>
        /\ handler = "rm_tlv" => Routes[i].dir = <<"tlv", "delete">>
    BY <1>3, <1>4, RoutesAre
  <1>6. call.method = "POST"
    BY <1>4, <1>5
  <1>7. 1 \in DOMAIN Routes /\ Routes[1].dir = <<"index.html">>
    BY RoutesAre DEF Routes, Route
  <1>8. 7 \in DOMAIN Routes /\ Routes[7].dir = <<"hash">>
    BY RoutesAre DEF Routes, Route
  <1>9. <<"compact">> # <<"index.html">> /\ <<"tlv", "delete">> # <<"index.html">>
    OBVIOUS
  <1>10. call.path # NoPath
    BY <1>3, <1>4, <1>5, <1>7, <1>9, RoutesApart
  <1>11. call # HashCall
    BY <1>6 DEF HashCall, Call
  <1>12. PICK j \in DOMAIN Routes : call.path.dir = Routes[j].dir
    BY <1>1, <1>4, <1>10, <1>11, CallsAssumption
  <1>13. call.path.dir = Routes[i].dir
    BY <1>3, <1>4, <1>10, <1>12, RoutesApart
  <1>14. QED
    BY <1>5, <1>6, <1>13 DEF Is, Compact, Del, Call, Path

\* The page shows nothing more.
ShowsLess == \A o \in DOMAIN shown' : shown'[o] # PAD => o \in DOMAIN shown /\ shown'[o] = shown[o]

StillKept(o) == o <= len /\ KeptAt(file, o, shown[o]) => o <= len' /\ KeptAt(file', o, shown[o])

\* PageInv from what a step does to each slot the page shows.
LEMMA PageKeeps ==
  ASSUME PageInv, ShowsLess, TailInv',
         since' = {} => since = {} /\ \A o \in DOMAIN shown : shown[o] # PAD => StillKept(o)
  PROVE  PageInv'
  <1>1. ASSUME since' = {}, NEW o \in DOMAIN shown', shown'[o] # PAD
        PROVE  o <= len' /\ KeptAt(file', o, shown'[o])
    <2>1. o \in DOMAIN shown /\ shown'[o] = shown[o] /\ shown[o] # PAD
      BY <1>1 DEF ShowsLess
    <2>2. o <= len /\ KeptAt(file, o, shown[o])
      BY <1>1, <2>1 DEF PageInv, ShownInv
    <2>3. o <= len' /\ KeptAt(file', o, shown[o])
      BY <1>1, <2>1, <2>2 DEF StillKept
    <2>4. QED
      BY <2>1, <2>3
  <1>2. ShownInv'
    BY <1>1 DEF ShownInv, KeptAt
  <1>3. QED
    BY <1>2 DEF PageInv

\* The page learns of a slot only when it is loaded with success.
LEMMA CallbackShows ==
  ASSUME NEW c, NEW st, NEW says, Callback(c, st, says), ~Is(c, Load) \/ st # Status.OK
  PROVE  ShowsLess
  <1>1. CASE shown' = shown
    BY <1>1 DEF ShowsLess
  <1>2. CASE shown' = [shown EXCEPT ![c.path.off] = PAD]
    BY <1>2 DEF ShowsLess
  <1>3. CASE shown' = <<>>
    BY <1>3, EmptyIs, SeqIs DEF ShowsLess
  <1>4. QED
    BY <1>1, <1>2, <1>3, CallbackIs

\* A step that leaves the dazibao alone.
LEMMA FileStays ==
  ASSUME StateInv, PageInv, file' = file, ShowsLess, since' = since, len' \in {len, Len(file)},
         lock' \in {"other", "changed"} => (lock' = lock /\ olen' = olen) \/ olen' = Len(file)
  PROVE  PageInv'
  <1>1. PICK m \in Nat : m = Len(file) /\ DOMAIN file = 1 .. m
    BY SeqIs DEF StateInv, StateTypes
  <1>2. TailInv'
    BY <1>1 DEF PageInv, TailInv
  <1>3. \A o \in DOMAIN shown : StillKept(o)
    BY <1>1 DEF StillKept, KeptAt
  <1>4. QED
    BY <1>2, <1>3, PageKeeps

\* What does not cut the dazibao is as long as it.
LEMMA UncutIs ==
  ASSUME NEW g, Len(g) \in Nat, Len(file) \in Nat, NEW more,
         since' = since \cup CutBy(g) \cup more, since' = {}
  PROVE  since = {} /\ Len(g) >= Len(file) /\ more = {}
  <1>1. since = {} /\ CutBy(g) = {} /\ more = {}
    OBVIOUS
  <1>2. ~(Len(g) < Len(file))
    BY <1>1 DEF CutBy
  <1>3. QED
    BY <1>1, <1>2

\* What is served keeps what the page shows, if it neither cuts nor compacts the dazibao.
LEMMA ServedKeeps ==
  ASSUME StateInv, Serving, NEW res \in Outcomes, ~Is(call, Compact), Len(res.kept) >= Len(file),
         NEW o, NEW v, v # PAD, o <= len, KeptAt(file, o, v)
  PROVE  o <= Len(res.kept) /\ KeptAt(res.kept, o, v)
  <1>1. PICK f : f = Mapping
    OBVIOUS
  <1>2. f = Resized(file, len) /\ len \in Nat /\ IsSeq(file) /\ IsSeq(f)
    BY <1>1, ResizedIs DEF Mapping, StateInv, StateTypes
  <1>3. PICK g : g = res.kept
    OBVIOUS
  <1>4. res \in Routed(Registered, req, f, fd) /\ fd \in BOOLEAN
    BY <1>1 DEF Outcomes, StateInv, StateTypes
  <1>5. HandlerOf(Registered, req.method, req.path) # "compact_dz"
    BY KindServed
  <1>6. IsSeq(g) /\ (\/ g = f
                     \/ \E w : g \in Added(f, w)
                     \/ \E r \in DOMAIN f : g \in Removed(f, r))
    BY <1>2, <1>3, <1>4, <1>5, RoutedIs
  <1>7. KeptAt(g, o, v)
    BY <1>2, <1>3, <1>6, KeptStays
  <1>8. o <= Len(g)
    BY <1>6, <1>7, SeqIs DEF KeptAt
  <1>9. QED
    BY <1>3, <1>7, <1>8

\* The server does not touch what another program has open.
LEMMA ServingLocks ==
  ASSUME StateInv, Serving
  PROVE  lock \notin {"other", "changed"}
  BY DEF StateInv, LockInv, Serving

\* A page that is loaded shows the dazibao as it is; any other request keeps what is shown.
LEMMA RouteRequestShows ==
  ASSUME StateInv, PageInv, StateInv', RouteRequest
  PROVE  PageInv'
  <1>1. PICK res \in Outcomes :
          LET tells == res.direct /\ ~gone
          IN  /\ file' = res.kept /\ len' = Len(res.kept)
              /\ IF tells THEN Callback(call, res.status, res.says)
                          ELSE UNCHANGED <<shown, prev, poll, alarms>>
              /\ Recorded(res, tells)
    BY DEF RouteRequest
  <1>2. Serving /\ lock' = lock
    BY DEF RouteRequest
  <1>3. TailInv'
    BY <1>2, ServingLocks DEF TailInv
  <1>4. PICK tells : tells = (res.direct /\ ~gone)
    OBVIOUS
  <1>5. CASE tells /\ Is(call, Load) /\ res.status = Status.OK
    <2>1. Callback(call, res.status, res.says)
      BY <1>1, <1>4, <1>5
    <2>2. shown' = res.says
      BY <1>5, <2>1, KindsDiffer, CallbackIs
    <2>3. req.method = "GET" /\ req.path.dir = <<>>
      BY <1>2, <1>5 DEF StateInv, StreamInv, Understood, ServerInv, Serving, Is, Load, Call, NoPath
    <2>4. res.kept = Mapping /\ (res.says = Mapping \/ res.says = <<>>)
      BY <1>5, <2>3, LoadRouted DEF Outcomes, Registered
    <2>5. PICK m \in Nat : m = Len(file') /\ DOMAIN file' = 1 .. m
      BY SeqIs DEF StateInv, StateTypes
    <2>6. \A o \in DOMAIN shown' : o <= len' /\ KeptAt(file', o, shown'[o])
      <3>1. CASE shown' = file'
        BY <1>1, <2>5, <3>1 DEF KeptAt
      <3>2. CASE shown' = <<>>
        BY <3>2, EmptyIs, SeqIs
      <3>3. QED
        BY <1>1, <2>2, <2>4, <3>1, <3>2
    <2>7. ShownInv'
      BY <2>6 DEF ShownInv, KeptAt
    <2>8. QED
      BY <1>3, <2>7 DEF PageInv
  <1>6. CASE ~(tells /\ Is(call, Load) /\ res.status = Status.OK)
    <2>1. ShowsLess
      <3>1. CASE tells
        BY <1>1, <1>4, <1>6, <3>1, CallbackShows
      <3>2. CASE ~tells
        BY <1>1, <1>4, <3>2 DEF ShowsLess
      <3>3. QED
        BY <3>1, <3>2
    <2>2. since' = since \cup CutBy(res.kept) \cup (IF Is(call, Compact) THEN {"compacted"} ELSE {})
      BY <1>1, <1>4, <1>6 DEF Recorded
    <2>3. since' = {} => since = {} /\ ~Is(call, Compact) /\ Len(res.kept) >= Len(file)
      <3>1. SUFFICES ASSUME since' = {}
                     PROVE  since = {} /\ ~Is(call, Compact) /\ Len(res.kept) >= Len(file)
        OBVIOUS
      <3>2. Len(res.kept) \in Nat /\ Len(file) \in Nat
        BY <1>2, OutcomeIs, SeqIs DEF StateInv, StateTypes
      <3>3. PICK more : more = IF Is(call, Compact) THEN {"compacted"} ELSE {}
        OBVIOUS
      <3>4. since = {} /\ Len(res.kept) >= Len(file) /\ more = {}
        BY <2>2, <3>1, <3>2, <3>3, UncutIs
      <3>5. QED
        BY <3>3, <3>4
    <2>4. since' = {} => \A o \in DOMAIN shown : shown[o] # PAD => StillKept(o)
      BY <1>1, <1>2, <2>3, ServedKeeps DEF StillKept
    <2>5. QED
      BY <1>3, <2>1, <2>3, <2>4, PageKeeps
  <1>7. QED
    BY <1>5, <1>6

\* A step that neither the page nor the dazibao sees.
LEMMA QuietShows ==
  ASSUME StateInv, PageInv, UNCHANGED <<file, shown, since>>, len' \in {len, Len(file)},
         (lock' = lock /\ olen' = olen) \/ olen' = Len(file)
  PROVE  PageInv'
  <1>1. ShowsLess
    BY DEF ShowsLess
  <1>2. QED
    BY <1>1, FileStays

\* A call that gets no answer of a handler.
LEMMA UnansweredShows ==
  ASSUME StateInv, PageInv, NEW c, NEW st, NEW says, Callback(c, st, says), st # Status.OK,
         UNCHANGED <<file, len, lock, olen, since>>
  PROVE  PageInv'
  <1>1. ShowsLess
    BY CallbackShows
  <1>2. QED
    BY <1>1, FileStays

\* An answer of main is not a page.
LEMMA TellShows ==
  ASSUME StateInv, PageInv, Tell
  PROVE  PageInv'
  <1>1. CASE gone
    BY <1>1, QuietShows DEF Tell, fileVars
  <1>2. CASE ~gone
    <2>1. Callback(call, answer, <<>>)
      BY <1>2 DEF Tell
    <2>2. answer # Status.OK
      BY DEF Tell, StateInv, ServerInv
    <2>3. QED
      BY <2>1, <2>2, UnansweredShows DEF Tell, fileVars
  <1>3. QED
    BY <1>1, <1>2

\* Nor is a refusal.
LEMMA RefuseShows ==
  ASSUME StateInv, PageInv, Refuse
  PROVE  PageInv'
  <1>1. UNCHANGED <<file, len, lock, olen, since>> /\ 0 # Status.OK
    BY StatusIs DEF Refuse, fileVars, serverVars
  <1>2. CASE Callback(asked, 0, <<>>)
    BY <1>1, <1>2, UnansweredShows
  <1>3. CASE shown' = shown
    BY <1>1, <1>3, QuietShows
  <1>4. QED
    BY <1>2, <1>3 DEF Refuse

\* Nor is the failure of a call whose client has left.
LEMMA LeaveEarlyShows ==
  ASSUME StateInv, PageInv, LeaveEarly
  PROVE  PageInv'
  <1>1. UNCHANGED <<file, len, lock, olen, since>> /\ 0 # Status.OK
    BY StatusIs DEF LeaveEarly, fileVars, serverVars
  <1>2. Callback(call, 0, <<>>)
    BY DEF LeaveEarly
  <1>3. QED
    BY <1>1, <1>2, UnansweredShows

\* A process that ends leaves g: what is not cut off from it is kept.
LEMMA EndsShows ==
  ASSUME StateInv, PageInv, ShowsLess, NEW g, Ends(g), NEW cut, NEW more,
         since' = since \cup cut \cup more,
         since' = {} => \A o \in DOMAIN shown :
                          shown[o] # PAD /\ o <= len /\ KeptAt(file, o, shown[o]) => KeptAt(g, o, shown[o]),
         lock \in {"other", "changed"} => \A i \in DOMAIN g : i > olen => g[i] = PAD
  PROVE  PageInv'
  <1>1. file' = g /\ len' = len /\ olen' = olen /\ lock' = IF lock = "server" THEN "none" ELSE lock
    BY DEF Ends
  <1>2. TailInv'
    BY <1>1 DEF TailInv
  <1>3. since' = {} => since = {} /\ \A o \in DOMAIN shown : shown[o] # PAD => StillKept(o)
    BY <1>1 DEF StillKept
  <1>4. QED
    BY <1>2, <1>3, PageKeeps

\* A request killed by SIGPIPE has done what it did, and leaves the file stretched.
LEMMA RequestDiesShows ==
  ASSUME StateInv, PageInv, RequestDies
  PROVE  PageInv'
  <1>1. PICK res \in Outcomes : Dies(res.kept)
    BY DEF RequestDies
  <1>2. Serving
    BY DEF RequestDies
  <1>3. PICK g : g = res.kept
    OBVIOUS
  <1>4. PICK more : more = IF Is(call, Compact) THEN {"compacted"} ELSE {}
    OBVIOUS
  <1>5. /\ Ends(Unclosed(g)) /\ shown' = shown
        /\ since' = since \cup CutBy(g) \cup more
    BY <1>1, <1>3, <1>4 DEF Dies
  <1>6. IsSeq(g) /\ Len(g) \in Nat /\ Len(file) \in Nat
    BY <1>2, <1>3, OutcomeIs, SeqIs DEF StateInv, StateTypes
  <1>7. ASSUME since' = {}, NEW o \in DOMAIN shown, shown[o] # PAD, o <= len, KeptAt(file, o, shown[o])
        PROVE  KeptAt(Unclosed(g), o, shown[o])
    <2>1. more = {} /\ Len(g) >= Len(file)
      BY <1>5, <1>6, <1>7, UncutIs
    <2>2. ~Is(call, Compact)
      BY <1>4, <2>1
    <2>3. KeptAt(g, o, shown[o])
      BY <1>2, <1>3, <1>7, <2>1, <2>2, ServedKeeps
    <2>4. QED
      BY <1>6, <2>3, KeptUnclosed
  <1>8. lock \notin {"other", "changed"}
    BY <1>2, ServingLocks
  <1>9. ShowsLess
    BY <1>5 DEF ShowsLess
  <1>10. QED
    BY <1>5, <1>7, <1>8, <1>9, EndsShows

\* Killed over an error that main tells: a dazibao that it still has locked is left stretched.
LEMMA TellDiesShows ==
  ASSUME StateInv, PageInv, TellDies
  PROVE  PageInv'
  <1>1. PICK more : more = IF Is(call, Compact) THEN {"compacted"} ELSE {}
    OBVIOUS
  <1>2. Ends(Unclosed(file)) /\ shown' = shown /\ since' = since \cup CutBy(file) \cup more
    BY <1>1 DEF TellDies, Dies
  <1>3. \A o \in DOMAIN shown : KeptAt(file, o, shown[o]) => KeptAt(Unclosed(file), o, shown[o])
    BY KeptUnclosed DEF StateInv, StateTypes
  <1>4. lock \in {"other", "changed"} =>
          \A i \in DOMAIN Unclosed(file) : i > olen => Unclosed(file)[i] = PAD
    BY DEF Unclosed, PageInv, TailInv
  <1>5. ShowsLess
    BY <1>2 DEF ShowsLess
  <1>6. QED
    BY <1>2, <1>3, <1>4, <1>5, EndsShows

\* clean_close cuts the dazibao at the length it remembers, behind all the page shows.
LEMMA LeftKeeps ==
  ASSUME StateInv, PageInv, NEW g \in LeftBySigInt, Len(g) >= Len(file), ~Is(call, Compact),
         NEW o, NEW v, v # PAD, o <= len, KeptAt(file, o, v)
  PROVE  KeptAt(g, o, v)
  <1>1. IsSeq(file) /\ len \in Nat
    BY DEF StateInv, StateTypes
  <1>2. CASE g = Resized(file, len)
    <2>1. PICK f : f = Resized(file, len)
      OBVIOUS
    <2>2. IsSeq(f)
      BY <1>1, <2>1, ResizedIs
    <2>3. QED
      BY <1>1, <1>2, <2>1, <2>2, KeptStays
  <1>3. CASE at = "route" /\ g \in MidRoute
    <2>1. Serving
      BY <1>3 DEF Serving
    <2>2. g = file \/ \E res \in Outcomes : g = res.kept
      BY <1>3, Zenon DEF MidRoute
    <2>3. QED
      BY <2>1, <2>2, ServedKeeps
  <1>4. CASE g = file
    BY <1>4
  <1>5. CASE g = Unclosed(file)
    BY <1>1, <1>5, KeptUnclosed
  <1>6. QED
    BY <1>2, <1>3, <1>4, <1>5 DEF LeftBySigInt

\* The SIGINT handler leaves what another program has not read as it is: pads.
LEMMA LeftTail ==
  ASSUME StateInv, PageInv, NEW g \in LeftBySigInt, lock \in {"other", "changed"}
  PROVE  \A i \in DOMAIN g : i > olen => g[i] = PAD
  <1>1. IsSeq(file) /\ len \in Nat
    BY DEF StateInv, StateTypes
  <1>2. CASE g = Resized(file, len)
    <2>1. DOMAIN g = 1 .. len /\ DOMAIN file = 1 .. Len(file) /\ Len(file) \in Nat
      BY <1>1, <1>2, ResizedIs, SeqIs
    <2>2. \A i \in 1 .. len : g[i] = IF i <= Len(file) THEN file[i] ELSE PAD
      BY <1>1, <1>2, ResizedIs
    <2>3. QED
      BY <2>1, <2>2 DEF PageInv, TailInv
  <1>3. CASE at = "route"
    BY <1>3, ServingLocks DEF Serving
  <1>4. CASE g = file \/ g = Unclosed(file)
    BY <1>4 DEF Unclosed, PageInv, TailInv
  <1>5. QED
    BY <1>2, <1>3, <1>4 DEF LeftBySigInt

\* A call that is broken off shows nothing more, whatever is left of the dazibao behind what is kept.
LEMMA BreaksShows ==
  ASSUME StateInv, PageInv, NEW g, IsSeq(g), Breaks(g),
         \A o, v : /\ v # PAD /\ o <= len /\ KeptAt(file, o, v)
                  /\ Len(g) >= Len(file) /\ ~Is(call, Compact) => KeptAt(g, o, v),
         lock \in {"other", "changed"} => \A i \in DOMAIN g : i > olen => g[i] = PAD
  PROVE  PageInv'
  <1>1. PICK more : more = IF Is(call, Compact) THEN {"compacted"} ELSE {}
    OBVIOUS
  <1>2. /\ Ends(g)
        /\ since' = since \cup CutBy(g) \cup more
        /\ shown' = shown \/ Callback(call, 0, <<>>)
    BY <1>1 DEF Breaks
  <1>3. Len(g) \in Nat /\ Len(file) \in Nat
    BY SeqIs DEF StateInv, StateTypes
  <1>4. ASSUME since' = {}, NEW o \in DOMAIN shown, shown[o] # PAD, o <= len, KeptAt(file, o, shown[o])
        PROVE  KeptAt(g, o, shown[o])
    <2>1. more = {} /\ Len(g) >= Len(file)
      BY <1>2, <1>3, <1>4, UncutIs
    <2>2. ~Is(call, Compact)
      BY <1>1, <2>1
    <2>3. QED
      BY <1>4, <2>1, <2>2
  <1>5. ShowsLess
    <2>1. CASE shown' = shown
      BY <2>1 DEF ShowsLess
    <2>2. CASE Callback(call, 0, <<>>)
      BY <2>2, StatusIs, CallbackShows
    <2>3. QED
      BY <1>2, <2>1, <2>2
  <1>6. QED
    BY <1>2, <1>4, <1>5, EndsShows

\* PageInv through a SIGINT, whatever is being served.
LEMMA SigIntShows ==
  ASSUME StateInv, PageInv, SigInt
  PROVE  PageInv'
  <1>1. PICK g \in LeftBySigInt : Breaks(g)
    BY DEF SigInt
  <1>2. IsSeq(g)
    BY LeftIs
  <1>3. QED
    BY <1>1, <1>2, LeftKeeps, LeftTail, BreaksShows

\* Nor does a page that cannot be made change what is kept.
LEMMA PageAbortsShows ==
  ASSUME StateInv, PageInv, PageAborts
  PROVE  PageInv'
  <1>1. Breaks(Unclosed(file)) /\ Serving /\ IsSeq(file)
    BY DEF PageAborts, StateInv, StateTypes
  <1>2. lock \notin {"other", "changed"}
    BY <1>1, ServingLocks
  <1>3. QED
    BY <1>1, <1>2, UnclosedIs, KeptUnclosed, BreaksShows

\* Another program's writing, and its closing.
LEMMA OthersKeep ==
  ASSUME StateInv, PageInv, lock \in {"other", "changed"}, NEW g, IsSeq(g), NEW more,
         file' = g, since' = since \cup CutBy(g) \cup more, shown' = shown, len' = len,
         lock' = "none" \/ olen' = Len(g),
         \/ g = Theirs
         \/ \E w : g \in Added(Theirs, w)
         \/ \E r \in DOMAIN Theirs : g \in Removed(Theirs, r)
         \/ more # {}
  PROVE  PageInv'
  <1>1. Len(g) \in Nat /\ Len(file) \in Nat /\ IsSeq(file) /\ DOMAIN g = 1 .. Len(g)
    BY SeqIs DEF StateInv, StateTypes
  <1>2. TailInv'
    BY <1>1 DEF TailInv
  <1>3. ShowsLess
    BY DEF ShowsLess
  <1>4. ASSUME since' = {}, NEW o \in DOMAIN shown, shown[o] # PAD, o <= len, KeptAt(file, o, shown[o])
        PROVE  KeptAt(g, o, shown[o])
    <2>1. more = {} /\ Len(g) >= Len(file)
      BY <1>1, <1>4, UncutIs
    <2>2. PICK f : f = Theirs
      OBVIOUS
    <2>3. f = Resized(file, olen) /\ olen \in Nat
      BY <2>2, TheirsIs DEF Theirs
    <2>4. o <= olen \/ file[o] = PAD
      <3>1. o \in DOMAIN file /\ o \in Int
        BY <1>1, <1>4, SeqIs DEF KeptAt
      <3>2. QED
        BY <2>3, <3>1 DEF PageInv, TailInv
    <2>5. \/ g = f
          \/ \E w : g \in Added(f, w)
          \/ \E r \in DOMAIN f : g \in Removed(f, r)
      BY <2>1, <2>2
    <2>6. QED
      BY <1>1, <1>4, <2>1, <2>3, <2>4, <2>5, KeptStays
  <1>5. since' = {} => since = {} /\ \A o \in DOMAIN shown : shown[o] # PAD => StillKept(o)
    BY <1>4 DEF StillKept
  <1>6. QED
    BY <1>2, <1>3, <1>5, PageKeeps

\* PageInv through a change by another program.
LEMMA OtherWriteShows ==
  ASSUME StateInv, PageInv, NEW g, IsSeq(g), NEW more, OtherWrite(g, more),
         \/ \E w : g \in Added(Theirs, w)
         \/ \E r \in DOMAIN Theirs : g \in Removed(Theirs, r)
         \/ more # {}
  PROVE  PageInv'
  BY OthersKeep DEF OtherWrite, serverVars, pageVars

\* Its additions.
LEMMA OtherAddsShows ==
  ASSUME StateInv, PageInv, OtherAdds
  PROVE  PageInv'
  <1>1. PICK v \in Others : \E g \in Added(Theirs, v) : OtherWrite(g, {})
    BY DEF OtherAdds
  <1>2. PICK g \in Added(Theirs, v) : OtherWrite(g, {})
    BY <1>1
  <1>3. IsSeq(g)
    BY TheirsIs, AddedIs
  <1>4. QED
    BY <1>2, <1>3, OtherWriteShows

\* Its deletions.
LEMMA OtherRemovesShows ==
  ASSUME StateInv, PageInv, OtherRemoves
  PROVE  PageInv'
  <1>1. PICK r \in 1 .. olen : \E g \in Removed(Theirs, r) : OtherWrite(g, {})
    BY DEF OtherRemoves
  <1>2. PICK g \in Removed(Theirs, r) : OtherWrite(g, {})
    BY <1>1
  <1>3. IsSeq(g) /\ r \in DOMAIN Theirs
    BY TheirsIs, RemovedIs, SeqIs
  <1>4. QED
    BY <1>2, <1>3, OtherWriteShows

\* Its compactions, which move the slots.
LEMMA OtherCompactsShows ==
  ASSUME StateInv, PageInv, OtherCompacts
  PROVE  PageInv'
  BY TheirsIs, CompactedSeq, OtherWriteShows DEF OtherCompacts

\* What it does on closing: the file is cut at the length it has.
LEMMA OtherCloseShows ==
  ASSUME StateInv, PageInv, OtherClose
  PROVE  PageInv'
  <1>1. PICK g : g = Theirs
    OBVIOUS
  <1>2. IsSeq(g)
    BY <1>1, TheirsIs
  <1>3. since' = since \cup CutBy(g) \cup {}
    BY <1>1 DEF OtherClose
  <1>4. QED
    BY <1>1, <1>2, <1>3, OthersKeep DEF OtherClose, serverVars, pageVars

\* A new dazibao has nothing of what the page shows.
LEMMA CreateDzShows ==
  ASSUME StateInv, PageInv, CreateDz
  PROVE  PageInv'
  <1>1. since' # {} /\ lock' = "none"
    BY DEF CreateDz, StateInv, LockInv
  <1>2. QED
    BY <1>1 DEF PageInv, TailInv, ShownInv

\* PageInv at first: the page shows the dazibao.
LEMMA PageInit ==
  ASSUME Init
  PROVE  PageInv
  <1>1. IsSeq(file)
    BY CallsAssumption DEF Init, IsSeq
  <1>2. PICK m \in Nat : m = Len(file) /\ DOMAIN file = 1 .. m
    BY <1>1, SeqIs
  <1>3. QED
    BY <1>2 DEF Init, PageInv, TailInv, ShownInv, KeptAt

\* PageInv step by step.
LEMMA PageStep ==
  ASSUME StateInv, PageInv, [Next]_vars
  PROVE  PageInv'
  <1>1. StateInv'
    BY StateStep
  <1>2. CASE (\E c \in Calls : Ask(c)) \/ CheckHash \/ HashCallback
    BY <1>2, QuietShows DEF Ask, CheckHash, HashCallback, fileVars, serverVars, history
  <1>3. CASE Accept \/ Receive \/ Understand \/ OpenDz
    BY <1>3, QuietShows DEF Accept, Receive, Understand, OpenDz, fileVars, serverVars, pageVars, history
  <1>4. CASE Flock \/ CloseDz
    <2>1. lock' \in {"none", "server"} \/ lock' = lock
      BY <1>4 DEF Flock, CloseDz
    <2>2. UNCHANGED <<file, shown, since, olen>> /\ len' \in {len, Len(file)}
      BY <1>4 DEF Flock, CloseDz, pageVars, history
    <2>3. ShowsLess
      BY <2>2 DEF ShowsLess
    <2>4. QED
      BY <2>1, <2>2, <2>3, FileStays
  <1>5. CASE RouteRequest
    BY <1>1, <1>5, RouteRequestShows
  <1>6. CASE Tell \/ LeaveEarly \/ Refuse
    BY <1>6, TellShows, LeaveEarlyShows, RefuseShows
  <1>7. CASE PageAborts \/ RequestDies \/ TellDies \/ SigInt
    BY <1>7, PageAbortsShows, RequestDiesShows, TellDiesShows, SigIntShows
  <1>8. CASE Start \/ OtherOpen \/ RemoveDz
    BY <1>8, QuietShows DEF Start, OtherOpen, RemoveDz, fileVars, serverVars, pageVars, history
  <1>9. CASE OtherAdds \/ OtherRemoves \/ OtherCompacts \/ OtherClose \/ CreateDz
    BY <1>9, OtherAddsShows, OtherRemovesShows, OtherCompactsShows, OtherCloseShows, CreateDzShows
  <1>10. CASE UNCHANGED vars
    BY <1>10, QuietShows DEF vars, fileVars, serverVars, pageVars, history
  <1>11. QED
    BY <1>2, <1>3, <1>4, <1>5, <1>6, <1>7, <1>8, <1>9, <1>10 DEF Next, Server

\* As long as nothing has moved or cut the slots, each one the page shows is where it was, or a pad
\* that nothing is put in the place of.
THEOREM PageInvariance == Spec => []PageInv
  <1>1. Init => PageInv
    BY PageInit
  <1>2. StateInv /\ PageInv /\ [Next]_vars => PageInv'
    BY PageStep
  <1>3. QED
    BY <1>1, <1>2, StateInvariance, PTL DEF Spec

\* src/src/web/routes.c:176: as long as the dazibao has not been compacted, cut or created anew since
\* the page was made, what a delete removes is what the page shows at that offset.
THEOREM DeletesShown == Spec => DeletesWhatIsShown
  <1>1. PageInv =>
          [ (/\ at = "route" /\ at' = "close" /\ Is(call, Del(0)) /\ answer' = Status.NO_CT
             /\ since = {} /\ call.path.off \in DOMAIN shown /\ shown[call.path.off] # PAD) =>
              file[call.path.off] \in {shown[call.path.off], PAD} ]_vars
    BY DEF PageInv, ShownInv, KeptAt
  <1>2. QED
    BY <1>1, PageInvariance, PTL DEF Spec, DeletesWhatIsShown

-----------------------------------------------------------------------------
(* What the server spares. *)

\* A TLV that is spared is counted still, whatever its value is.
LEMMA MovesCount ==
  ASSUME NEW f, IsSeq(f), NEW g, IsSeq(g), NEW but, Spared(f, g, but), NEW v, v \notin Void
  PROVE  /\ IsFiniteSet({i \in DOMAIN f \ but : f[i] = v})
         /\ Cardinality({i \in DOMAIN f \ but : f[i] = v}) \in Nat
         /\ Holds(g, v) \in Nat
         /\ Cardinality({i \in DOMAIN f \ but : f[i] = v}) <= Holds(g, v)
  <1>1. PICK m \in Nat : DOMAIN f = 1 .. m
    BY SeqIs
  <1>2. PICK n \in Nat : DOMAIN g = 1 .. n
    BY SeqIs
  <1>3. PICK h : Moves(h, f, g, but)
    BY DEF Spared
  <1> DEFINE A == {i \in DOMAIN f \ but : f[i] = v}
             B == {i \in DOMAIN g : g[i] = v}
             k == [i \in A |-> h[i]]
  <1>4. IsFiniteSet(A) /\ Cardinality(A) \in Nat
    <2>1. A \in SUBSET (1 .. m) /\ 1 \in Int /\ m \in Int
      BY <1>1
    <2>2. QED
      BY <2>1, FS_Interval, FS_Subset, FS_CardinalityType
  <1>5. IsFiniteSet(B) /\ Cardinality(B) \in Nat
    <2>1. B \in SUBSET (1 .. n) /\ 1 \in Int /\ n \in Int
      BY <1>2
    <2>2. QED
      BY <2>1, FS_Interval, FS_Subset, FS_CardinalityType
  <1>6. \A i \in A : h[i] \in B /\ \A j \in A : h[j] = h[i] => j = i
    BY <1>3 DEF Moves
  <1>7. k \in Injection(A, B)
    <2>1. k \in [A -> B] /\ \A i \in A : k[i] = h[i]
      BY <1>6
    <2>2. \A i, j \in A : k[i] = k[j] => i = j
      BY <1>6, <2>1
    <2>3. QED
      BY <2>1, <2>2 DEF Injection, IsInjective
  <1>8. Cardinality(A) <= Cardinality(B)
    BY <1>5, <1>7, FS_Injection
  <1>9. QED
    BY <1>4, <1>5, <1>8 DEF Holds

\* What a request spares: all, or all but what a delete names.
Spares(g) ==
  /\ IsSeq(g)
  /\ \/ Spared(file, g, {})
     \/ /\ at = "route" /\ Is(call, Del(0)) /\ call.path.off \in DOMAIN file
        /\ Spared(file, g, {call.path.off})

LEMMA SparesCount ==
  ASSUME StateInv, NEW g, Spares(g), NEW v, v \notin Void
  PROVE  Holds(g, v) >= Holds(file, v) - Named(v)
  <1>1. IsSeq(file) /\ IsSeq(g)
    BY DEF Spares, StateInv, StateTypes
  <1>2. CASE Spared(file, g, {})
    <2>1. {i \in DOMAIN file \ {} : file[i] = v} = {i \in DOMAIN file : file[i] = v}
      OBVIOUS
    <2>2. /\ Cardinality({i \in DOMAIN file \ {} : file[i] = v}) \in Nat /\ Holds(g, v) \in Nat
          /\ Cardinality({i \in DOMAIN file \ {} : file[i] = v}) <= Holds(g, v)
      BY <1>1, <1>2, MovesCount
    <2>3. Holds(file, v) \in Nat /\ Holds(file, v) <= Holds(g, v)
      BY <2>1, <2>2, Zenon DEF Holds
    <2>4. QED
      BY <2>2, <2>3 DEF Named
  <1>3. CASE /\ at = "route" /\ Is(call, Del(0)) /\ call.path.off \in DOMAIN file
             /\ Spared(file, g, {call.path.off})
    <2>1. PICK o : o = call.path.off
      OBVIOUS
    <2> DEFINE A == {i \in DOMAIN file \ {o} : file[i] = v}
    <2>2. /\ IsFiniteSet(A) /\ Cardinality(A) \in Nat /\ Holds(g, v) \in Nat
          /\ Cardinality(A) <= Holds(g, v)
      BY <1>1, <1>3, <2>1, MovesCount
    <2>3. CASE file[o] = v
      <3>1. {i \in DOMAIN file : file[i] = v} = A \cup {o} /\ o \notin A
        BY <1>3, <2>1, <2>3
      <3> HIDE DEF A
      <3>2. Holds(file, v) = Cardinality(A) + 1
        BY <2>2, <3>1, FS_AddElement DEF Holds
      <3>3. Named(v) = 1
        BY <1>3, <2>1, <2>3 DEF Named
      <3>4. QED
        BY <2>2, <3>2, <3>3
    <2>4. CASE file[o] # v
      <3>1. {i \in DOMAIN file : file[i] = v} = A
        BY <2>4
      <3> HIDE DEF A
      <3>2. Holds(file, v) = Cardinality(A) /\ Named(v) = 0
        BY <2>1, <2>4, <3>1 DEF Holds, Named
      <3>3. QED
        BY <2>2, <3>2
    <2>5. QED
      BY <2>3, <2>4
  <1>4. QED
    BY <1>2, <1>3 DEF Spares

\* A longer file has the same TLVs.
LEMMA UnclosedSpares ==
  ASSUME StateInv, NEW g, Spares(g)
  PROVE  Spares(Unclosed(g))
  <1>1. IsSeq(g) /\ IsSeq(Unclosed(g))
    BY UnclosedIs DEF Spares
  <1>2. PICK m \in Nat : m = Len(g) /\ DOMAIN g = 1 .. m
    BY <1>1, SeqIs
  <1>3. ASSUME NEW i \in DOMAIN g
        PROVE  i \in DOMAIN Unclosed(g) /\ Unclosed(g)[i] = g[i]
    <2>1. PICK n \in Nat : Stretched(g) = Resized(g, n) /\ n >= m
      BY <1>1, <1>2, StretchedIs
    <2>2. PICK u : u = Resized(g, n)
      OBVIOUS
    <2>3. DOMAIN u = 1 .. n /\ \A j \in 1 .. n : u[j] = IF j <= m THEN g[j] ELSE PAD
      BY <1>2, <2>2, ResizedIs, SeqIs
    <2>4. i \in DOMAIN u /\ u[i] = g[i]
      BY <1>2, <2>1, <2>3
    <2>5. QED
      BY <2>1, <2>2, <2>4 DEF Unclosed
  <1>4. ASSUME NEW but, Spared(file, g, but)
        PROVE  Spared(file, Unclosed(g), but)
    <2>1. PICK h : Moves(h, file, g, but)
      BY <1>4 DEF Spared
    <2>2. Moves(h, file, Unclosed(g), but)
      BY <1>3, <2>1 DEF Moves
    <2>3. QED
      BY <2>2 DEF Spared
  <1>5. QED
    BY <1>1, <1>4 DEF Spares

LEMMA FileSpares ==
  ASSUME StateInv
  PROVE  Spares(file)
  <1>1. Spared(file, file, {})
    BY SparedInPlace
  <1>2. QED
    BY <1>1 DEF Spares, StateInv, StateTypes

\* What is mapped while a request is served is the dazibao.
LEMMA MappingIs ==
  ASSUME StateInv, at = "route"
  PROVE  Mapping = file
  <1>1. PICK n \in Nat : n = Len(file) /\ len = n
    BY SeqIs DEF StateInv, StateTypes, LockInv
  <1>2. PICK g : g = Resized(file, n)
    OBVIOUS
  <1>3. /\ IsSeq(g) /\ Len(g) = n /\ IsSeq(file)
        /\ \A i \in 1 .. n : g[i] = file[i]
    BY <1>1, <1>2, ResizedIs DEF StateInv, StateTypes
  <1>4. g = file
    BY <1>1, <1>3, SameSeq
  <1>5. QED
    BY <1>1, <1>2, <1>4 DEF Mapping

\* A request that is served spares all it is not asked to delete.
LEMMA ServedSpares ==
  ASSUME StateInv, at = "route", NEW res \in Outcomes
  PROVE  Spares(res.kept)
  <1>1. res \in Routed(Registered, req, file, fd) /\ fd \in BOOLEAN /\ Serving /\ IsSeq(file)
    BY MappingIs DEF Outcomes, Serving, StateInv, StateTypes
  <1>2. req.path = call.path
    BY DEF StateInv, StreamInv, Understood, ServerInv
  <1>3. PICK handler : handler = HandlerOf(Registered, req.method, req.path)
    OBVIOUS
  <1>4. PICK g : g = res.kept
    OBVIOUS
  <1>5. /\ IsSeq(g)
        /\ \/ g = file
           \/ handler = "rm_tlv" /\ call.path.off \in DOMAIN file /\ g \in Removed(file, call.path.off)
           \/ g = Compacted(file)
           \/ \E v : g \in Added(file, v)
    BY <1>1, <1>2, <1>3, <1>4, RoutedIs
  <1>6. CASE g = file
    BY <1>4, <1>6, FileSpares
  <1>7. CASE handler = "rm_tlv" /\ call.path.off \in DOMAIN file /\ g \in Removed(file, call.path.off)
    <2>1. Is(call, Del(0))
      BY <1>1, <1>3, <1>7, KindServed
    <2>2. Spared(file, g, {call.path.off})
      BY <1>1, <1>7, RemovedSpares
    <2>3. QED
      BY <1>4, <1>5, <1>7, <2>1, <2>2 DEF Spares
  <1>8. CASE g = Compacted(file)
    BY <1>1, <1>4, <1>5, <1>8, CompactedSpares DEF Spares
  <1>9. CASE \E v : g \in Added(file, v)
    BY <1>1, <1>4, <1>5, <1>9, AddedSpares DEF Spares
  <1>10. QED
    BY <1>5, <1>6, <1>7, <1>8, <1>9

\* So does a compaction that is interrupted: what has not been moved is where it was.
LEMMA HalfSpares ==
  ASSUME StateInv, NEW g \in HalfCompacted(file)
  PROVE  Spares(g)
  <1>1. IsSeq(file) /\ IsSeq(g) /\ IsSeq(Compacted(file))
    BY HalfIs, CompactedSeq DEF StateInv, StateTypes
  <1>2. PICK n \in Nat : n = Len(file) /\ DOMAIN file = 1 .. n
    BY <1>1, SeqIs
  <1>3. PICK c : c = Compacted(file)
    OBVIOUS
  <1>4. PICK l \in 0 .. n : l = Len(c) /\ DOMAIN c = 1 .. l
    BY <1>1, <1>2, <1>3, CompactedSeq, SeqIs
  <1>5. PICK k \in 0 .. l : g = SubSeq(c, 1, k) \o SubSeq(file, k + 1, n)
    BY <1>2, <1>3, <1>4 DEF HalfCompacted
  <1>6. PICK a : a = SubSeq(c, 1, k)
    OBVIOUS
  <1>7. PICK b : b = SubSeq(file, k + 1, n)
    OBVIOUS
  <1>8. IsSeq(a) /\ Len(a) = k /\ \A i \in 1 .. k : a[i] = c[i]
    <2>1. /\ IsSeq(a) /\ Len(a) = IF 1 <= k THEN k - 1 + 1 ELSE 0
          /\ \A i \in 1 .. k - 1 + 1 : a[i] = c[1 + i - 1]
      BY <1>5, <1>6, PartIs
    <2>2. QED
      BY <1>5, <2>1
  <1>9. IsSeq(b) /\ Len(b) = n - k /\ \A i \in 1 .. n - k : b[i] = file[k + i]
    <2>1. /\ IsSeq(b) /\ Len(b) = IF k + 1 <= n THEN n - (k + 1) + 1 ELSE 0
          /\ \A i \in 1 .. n - (k + 1) + 1 : b[i] = file[k + 1 + i - 1]
      BY <1>5, <1>7, PartIs
    <2>2. QED
      BY <1>5, <2>1
  <1>10. /\ Len(g) = n
         /\ \A i \in 1 .. k : g[i] = c[i]
         /\ \A i \in 1 .. n - k : g[k + i] = file[k + i]
    <2>1. /\ Len(g) = Len(a) + Len(b)
          /\ \A i \in 1 .. Len(a) : g[i] = a[i]
          /\ \A i \in 1 .. Len(b) : g[Len(a) + i] = b[i]
      BY <1>5, <1>6, <1>7, <1>8, <1>9, ConcatIs
    <2>2. Len(g) = n
      BY <1>5, <1>8, <1>9, <2>1
    <2>3. ASSUME NEW i \in 1 .. k PROVE g[i] = c[i]
      BY <1>8, <2>1
    <2>4. ASSUME NEW i \in 1 .. n - k PROVE g[k + i] = file[k + i]
      BY <1>8, <1>9, <2>1
    <2>5. QED
      BY <2>2, <2>3, <2>4
  <1>11. \A i \in k + 1 .. n : g[i] = file[i]
    <2> SUFFICES ASSUME NEW i \in k + 1 .. n PROVE g[i] = file[i]
      OBVIOUS
    <2>1. i - k \in 1 .. n - k /\ k + (i - k) = i
      BY <1>5
    <2>2. QED
      BY <1>10, <2>1
  <1>12. DOMAIN g = 1 .. n
    BY <1>1, <1>10, SeqIs
  <1>13. PICK h : /\ Moves(h, file, c, {})
                  /\ \A i \in DOMAIN file : file[i] \notin Void => h[i] \in 1 .. i
    BY <1>1, <1>3, CompactedMoves
  <1> DEFINE q == [i \in 1 .. n |-> IF h[i] <= k THEN h[i] ELSE i]
  <1>14. \A i \in 1 .. n : q[i] = IF h[i] <= k THEN h[i] ELSE i
    OBVIOUS
  <1> HIDE DEF q
  <1>15. ASSUME NEW i \in 1 .. n, file[i] \notin Void
         PROVE  /\ h[i] \in 1 .. i /\ h[i] \in 1 .. l /\ c[h[i]] = file[i]
                /\ h[i] <= k \/ i > k
                /\ \A j \in 1 .. n : file[j] \notin Void /\ h[j] = h[i] => j = i
    <2>1. h[i] \in 1 .. i /\ i \in DOMAIN file
      BY <1>2, <1>13, <1>15
    <2>2. /\ h[i] \in 1 .. l /\ c[h[i]] = file[i]
          /\ \A j \in 1 .. n : file[j] \notin Void /\ h[j] = h[i] => j = i
      BY <1>2, <1>4, <1>13, <1>15 DEF Moves
    <2>3. h[i] <= k \/ i > k
      BY <1>5, <2>1
    <2>4. QED
      BY <2>1, <2>2, <2>3
  <1>16. ASSUME NEW i \in 1 .. n, file[i] \notin Void
         PROVE  /\ q[i] \in 1 .. n /\ g[q[i]] = file[i]
                /\ \A j \in 1 .. n : file[j] \notin Void /\ q[j] = q[i] => j = i
    <2>1. CASE h[i] <= k
      <3>1. q[i] = h[i] /\ q[i] \in 1 .. k /\ q[i] \in 1 .. n
        BY <1>5, <1>14, <1>15, <1>16, <2>1
      <3>2. g[q[i]] = file[i]
        BY <1>10, <1>15, <1>16, <3>1
      <3>3. ASSUME NEW j \in 1 .. n, file[j] \notin Void, q[j] = q[i]
            PROVE  j = i
        <4>1. h[j] <= k
          BY <1>5, <1>14, <1>15, <3>1, <3>3
        <4>2. h[j] = h[i]
          BY <1>14, <3>1, <3>3, <4>1
        <4>3. QED
          BY <1>15, <1>16, <3>3, <4>2
      <3>4. QED
        BY <3>1, <3>2, <3>3
    <2>2. CASE ~(h[i] <= k)
      <3>1. q[i] = i /\ i \in k + 1 .. n
        BY <1>5, <1>14, <1>15, <1>16, <2>2
      <3>2. g[q[i]] = file[i]
        BY <1>11, <3>1
      <3>3. ASSUME NEW j \in 1 .. n, file[j] \notin Void, q[j] = q[i]
            PROVE  j = i
        <4>1. CASE h[j] <= k
          <5>1. q[j] = h[j] /\ h[j] <= k
            BY <1>14, <3>3, <4>1
          <5>2. QED
            BY <1>5, <3>1, <3>3, <5>1
        <4>2. CASE ~(h[j] <= k)
          BY <1>14, <3>1, <3>3, <4>2
        <4>3. QED
          BY <4>1, <4>2
      <3>4. QED
        BY <3>1, <3>2, <3>3
    <2>3. QED
      BY <2>1, <2>2
  <1>17. Moves(q, file, g, {})
    BY <1>2, <1>12, <1>16 DEF Moves
  <1>18. QED
    BY <1>1, <1>17 DEF Spares, Spared

\* Whatever the SIGINT handler leaves, once the dazibao is not being opened.
LEMMA LeftSpares ==
  ASSUME StateInv, at # "flock", NEW g \in LeftBySigInt
  PROVE  Spares(g)
  <1>1. CASE at = "route" /\ g \in MidRoute
    <2>1. g = file \/ (\E res \in Outcomes : g = res.kept) \/ g \in HalfCompacted(file)
      BY <1>1, Zenon DEF MidRoute
    <2>2. QED
      BY <1>1, <2>1, FileSpares, ServedSpares, HalfSpares
  <1>2. CASE g = file \/ g = Unclosed(file)
    BY <1>2, FileSpares, UnclosedSpares
  <1>3. QED
    BY <1>1, <1>2 DEF LeftBySigInt

\* What another program cuts off on closing are pads.
LEMMA TheirsSpares ==
  ASSUME StateInv, PageInv, lock \in {"other", "changed"}
  PROVE  Spares(Theirs)
  <1>1. PICK g : g = Theirs
    OBVIOUS
  <1>2. /\ IsSeq(g) /\ Len(g) = olen /\ olen \in Nat
        /\ \A i \in 1 .. olen : g[i] = IF i <= Len(file) THEN file[i] ELSE PAD
    BY <1>1, TheirsIs
  <1>3. PICK n \in Nat : n = Len(file) /\ DOMAIN file = 1 .. n
    BY SeqIs DEF StateInv, StateTypes
  <1>4. DOMAIN g = 1 .. olen
    BY <1>2, SeqIs
  <1>5. \A i \in DOMAIN file : file[i] \notin Void => i \in DOMAIN g /\ g[i] = file[i]
    BY <1>2, <1>3, <1>4 DEF PageInv, TailInv, Void
  <1>6. Spared(file, g, {})
    BY <1>5, SparedInPlace
  <1>7. QED
    BY <1>1, <1>2, <1>6 DEF Spares

\* Interrupted in its wait, the server keeps what the length it remembers takes in.
LEMMA CutKeeps ==
  ASSUME StateInv, NEW v, v \notin Void
  PROVE  Holds(Resized(file, len), v) >= Holds(Remembered, v)
  <1>1. PICK n \in Nat : n = Len(file) /\ DOMAIN file = 1 .. n
    BY SeqIs DEF StateInv, StateTypes
  <1>2. PICK g : g = Resized(file, len)
    OBVIOUS
  <1>3. PICK f : f = Remembered
    OBVIOUS
  <1>4. IsSeq(file) /\ len \in Nat
    BY DEF StateInv, StateTypes
  <1>5. IsSeq(g) /\ DOMAIN g = 1 .. len /\ \A i \in 1 .. len : g[i] = IF i <= n THEN file[i] ELSE PAD
    BY <1>1, <1>2, <1>4, ResizedIs, SeqIs
  <1>6. /\ IsSeq(f)
        /\ \A i \in DOMAIN f : i \in 1 .. n /\ i <= len /\ f[i] = file[i]
    <2>1. CASE len < n
      <3>1. f = SubSeq(file, 1, len)
        BY <1>1, <1>3, <2>1 DEF Remembered
      <3>2. IsSeq(f) /\ Len(f) = len /\ \A i \in 1 .. len : f[i] = file[i]
        <4>1. /\ IsSeq(f) /\ Len(f) = IF 1 <= len THEN len - 1 + 1 ELSE 0
              /\ \A i \in 1 .. len - 1 + 1 : f[i] = file[1 + i - 1]
          BY <1>4, <3>1, PartIs
        <4>2. QED
          BY <1>4, <4>1
      <3>3. QED
        BY <1>4, <2>1, <3>2, SeqIs
    <2>2. CASE ~(len < n)
      <3>1. f = file
        BY <1>1, <1>3, <2>2 DEF Remembered
      <3>2. QED
        BY <1>1, <1>4, <2>2, <3>1
    <2>3. QED
      BY <2>1, <2>2
  <1>7. \A i \in DOMAIN f \ {} : f[i] \notin Void => i \in DOMAIN g /\ g[i] = f[i]
    BY <1>4, <1>5, <1>6
  <1>8. Spared(f, g, {})
    BY <1>7, SparedInPlace
  <1>9. {i \in DOMAIN f \ {} : f[i] = v} = {i \in DOMAIN f : f[i] = v}
    OBVIOUS
  <1>10. /\ Cardinality({i \in DOMAIN f \ {} : f[i] = v}) \in Nat /\ Holds(g, v) \in Nat
         /\ Cardinality({i \in DOMAIN f \ {} : f[i] = v}) <= Holds(g, v)
    BY <1>5, <1>6, <1>8, MovesCount
  <1>11. Holds(f, v) \in Nat /\ Holds(f, v) <= Holds(g, v)
    BY <1>9, <1>10, Zenon DEF Holds
  <1>12. QED
    BY <1>2, <1>3, <1>10, <1>11

\* What the server does while it waits in dz_open, and is ended, is SIGINT's.
LEMMA CutIs ==
  ASSUME StateInv, [Next]_vars, CutInWait
  PROVE  file' = Resized(file, len)
  <1>1. CASE SigInt
    BY <1>1 DEF SigInt, Breaks, Ends, LeftBySigInt, CutInWait
  <1>2. CASE PageAborts \/ RequestDies \/ TellDies
    BY <1>2 DEF PageAborts, RequestDies, TellDies, Serving, CutInWait
  <1>3. CASE (\E c \in Calls : Ask(c)) \/ CheckHash \/ HashCallback \/ LeaveEarly
    BY <1>3 DEF Ask, CheckHash, HashCallback, LeaveEarly, serverVars, CutInWait
  <1>4. CASE Server
    BY <1>4 DEF Server, Accept, Receive, Understand, OpenDz, Flock, RouteRequest, CloseDz, Tell, Serving,
       serverVars, CutInWait
  <1>5. CASE Start \/ Refuse \/ OtherOpen \/ RemoveDz \/ CreateDz \/ OtherClose
    BY <1>5 DEF Start, Refuse, OtherOpen, RemoveDz, CreateDz, OtherClose, serverVars, CutInWait
  <1>6. CASE OtherAdds \/ OtherRemoves \/ OtherCompacts
    BY <1>6 DEF OtherAdds, OtherRemoves, OtherCompacts, OtherWrite, serverVars, CutInWait
  <1>7. CASE UNCHANGED vars
    BY <1>7 DEF vars, serverVars, CutInWait
  <1>8. QED
    BY <1>1, <1>2, <1>3, <1>4, <1>5, <1>6, <1>7 DEF Next

LEMMA SparesStep ==
  ASSUME StateInv, PageInv, [Next]_vars, there, there',
         ~(lock = "other" /\ lock' = "changed"), ~CutInWait
  PROVE  Spares(file')
  <1>1. CASE file' = file
    BY <1>1, FileSpares
  <1>2. CASE RouteRequest
    <2>1. at = "route"
      BY <1>2 DEF RouteRequest, Serving
    <2>2. QED
      BY <1>2, <2>1, ServedSpares DEF RouteRequest
  <1>3. CASE RequestDies
    <2>1. at = "route"
      BY <1>3 DEF RequestDies, Serving
    <2>2. PICK res \in Outcomes : file' = Unclosed(res.kept)
      BY <1>3 DEF RequestDies, Dies, Ends
    <2>3. QED
      BY <2>1, <2>2, ServedSpares, UnclosedSpares
  <1>4. CASE TellDies
    BY <1>4, FileSpares, UnclosedSpares DEF TellDies, Dies, Ends
  <1>5. CASE SigInt \/ PageAborts
    <2>1. CASE SigInt
      <3>1. PICK g \in LeftBySigInt : Ends(g)
        BY <2>1 DEF SigInt, Breaks
      <3>2. file' = g /\ at # "flock"
        BY <3>1 DEF Ends, CutInWait
      <3>3. QED
        BY <3>2, LeftSpares
    <2>2. CASE PageAborts
      BY <2>2, FileSpares, UnclosedSpares DEF PageAborts, Breaks, Ends
    <2>3. QED
      BY <1>5, <2>1, <2>2
  <1>6. CASE OtherClose
    BY <1>6, TheirsSpares DEF OtherClose
  <1>7. CASE OtherAdds \/ OtherRemoves \/ OtherCompacts
    BY <1>7 DEF OtherAdds, OtherRemoves, OtherCompacts, OtherWrite
  <1>8. CASE (\E c \in Calls : Ask(c)) \/ CheckHash \/ HashCallback \/ LeaveEarly
    BY <1>1, <1>8 DEF Ask, CheckHash, HashCallback, LeaveEarly, fileVars
  <1>9. CASE Accept \/ Receive \/ Understand \/ OpenDz \/ Flock \/ CloseDz \/ Tell
    BY <1>1, <1>9 DEF Accept, Receive, Understand, OpenDz, Flock, CloseDz, Tell, fileVars
  <1>10. CASE Start \/ Refuse \/ OtherOpen \/ RemoveDz
    BY <1>1, <1>10 DEF Start, Refuse, OtherOpen, RemoveDz, fileVars
  <1>11. CASE CreateDz
    BY <1>11 DEF CreateDz
  <1>12. CASE UNCHANGED vars
    BY <1>1, <1>12 DEF vars, fileVars
  <1>13. QED
    BY <1>2, <1>3, <1>4, <1>5, <1>6, <1>7, <1>8, <1>9, <1>10, <1>11, <1>12 DEF Next, Server

\* src/src/web/daziweb.c:40, 302: whatever the server does, and wherever it is interrupted or killed, it
\* loses no TLV with a value but the one a delete names, and another program that closes the dazibao
\* none at all; interrupted in dz_open's wait, it keeps those within the length it remembers.
THEOREM LosesNone == Spec => OthersKept
  <1>1. StateInv /\ PageInv /\ [Next]_vars =>
          [ (there /\ there' /\ ~(lock = "other" /\ lock' = "changed")) =>
              \A v \in Range(file) \ Void : Holds(file', v) >= Due(v) ]_vars
    <2> SUFFICES ASSUME StateInv, PageInv, [Next]_vars, there, there',
                        ~(lock = "other" /\ lock' = "changed"), NEW v, v \notin Void
                 PROVE  Holds(file', v) >= Due(v)
      OBVIOUS
    <2>1. CASE CutInWait
      BY <2>1, CutIs, CutKeeps DEF Due
    <2>2. CASE ~CutInWait
      BY <2>2, SparesStep, SparesCount DEF Due
    <2>3. QED
      BY <2>1, <2>2
  <1>2. QED
    BY <1>1, StateInvariance, PageInvariance, PTL DEF Spec, OthersKept

=============================================================================
