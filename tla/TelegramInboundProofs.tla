------------------------ MODULE TelegramInboundProofs ------------------------
(***************************************************************************)
(* Safety of the Telegram channel's way from the users to the supervisor,  *)
(* for every set of chats and every number of messages, prompts and taps:  *)
(* messages are handed over in the order they were written, and an         *)
(* acknowledgement never marks a message older than its own.               *)
(***************************************************************************)
EXTENDS TelegramInbound, TLAPS

Stages  == {"idle", "photo", "reply photo", "send", "clear", "resolve"}
Sorts   == {"none", "text", "image", "sticker", "service", "tap"}
Work    == [at : Stages, id : Nat, kind : Sorts, refers : {"nothing", "name", "reply"},
            image : BOOLEAN, replyImage : BOOLEAN, option : Options \cup {"none"}]
Handed  == [id : Nat, peer : {"group", "direct"}, content : Seq({"text", "image", "label"}),
            reply : {"image", "none"}, mentioned : BOOLEAN]

UserType   == messages \in Nat /\ asker \in [Requests -> Chats] /\ updates \in [Chats -> Seq(Work)]
WorkerType == worker \in [Chats -> Work] /\ lastMsg \in [Chats -> Nat]
AckType    == outbound \in [Chats -> Seq(Handed)] /\ toAck \in [Chats -> Seq(Nat)]
TypeInv    == UserType /\ WorkerType /\ AckType

(* The messages us that a chat's dispatcher has not taken yet were written *)
(* after the message last, in this order.                                  *)
Pending(us, last, written) ==
    /\ \A i \in 1 .. Len(us) : us[i].kind # "tap" => last < us[i].id /\ us[i].id <= written
    /\ \A i, j \in 1 .. Len(us) :
          (i < j /\ us[i].kind # "tap" /\ us[j].kind # "tap") => us[i].id < us[j].id

(* What was handed over is in order and not after the message last.        *)
InOrder(out, last) ==
    /\ \A i \in 1 .. Len(out) : out[i].id <= last
    /\ \A i, j \in 1 .. Len(out) : i < j => out[i].id < out[j].id

(* A message at work is the last one taken, and not handed over yet.       *)
Underway(w, last, out) ==
    w.at \in {"photo", "reply photo", "send"} =>
        w.id = last /\ \A i \in 1 .. Len(out) : out[i].id < w.id

NotAhead(acks, last) == \A i \in 1 .. Len(acks) : acks[i] <= last

ChatInv(c) ==
    /\ lastMsg[c] <= messages
    /\ Pending(updates[c], lastMsg[c], messages)
    /\ InOrder(outbound[c], lastMsg[c])
    /\ Underway(worker[c], lastMsg[c], outbound[c])
    /\ NotAhead(toAck[c], lastMsg[c])

AckedInv == \A a \in acked : a[1] <= a[2]

AckInv == AckedInv /\ \A c \in Chats : ChatInv(c)


-----------------------------------------------------------------------------
(* What the queues of one chat do.                                         *)
LEMMA WorkValues ==
    /\ IdleWork \in Work /\ IdleWork.at = "idle"
    /\ \A w \in Work : w.id \in Nat /\ w.kind \in Sorts
  BY DEF IdleWork, Work, Stages, Sorts

(* A message or a tap comes in behind the others.                          *)
LEMMA PendingGrows ==
    ASSUME NEW us \in Seq(Work), NEW last \in Nat, NEW written \in Nat, NEW now \in Nat,
           NEW u \in Work, Pending(us, last, written), last <= written,
           \/ u.kind = "tap" /\ now = written
           \/ u.id = written + 1 /\ now = written + 1
    PROVE  Append(us, u) \in Seq(Work) /\ Pending(Append(us, u), last, now)
<1>1. PICK new : new = Append(us, u)
  OBVIOUS
<1>2. /\ new \in Seq(Work) /\ Len(new) = Len(us) + 1 /\ Len(us) \in Nat /\ new[Len(us) + 1] = u
      /\ \A i \in 1 .. Len(us) : new[i] = us[i] /\ us[i] \in Work
  BY <1>1
<1>3. \A i \in 1 .. Len(us) : us[i].id \in Nat
  BY <1>2, WorkValues
<1>4. \A i \in 1 .. Len(new) : i \in 1 .. Len(us) \/ i = Len(us) + 1
  BY <1>2
<1>5. \A i \in 1 .. Len(new) : new[i].kind # "tap" => last < new[i].id /\ new[i].id <= now
  <2>1. \A i \in 1 .. Len(us) : us[i].kind # "tap" => last < us[i].id /\ us[i].id <= now
    BY <1>3 DEF Pending
  <2>2. u.kind # "tap" => last < u.id /\ u.id <= now
    OBVIOUS
  <2>. QED
    BY <1>2, <1>4, <2>1, <2>2
<1>6. \A i, j \in 1 .. Len(new) :
          (i < j /\ new[i].kind # "tap" /\ new[j].kind # "tap") => new[i].id < new[j].id
  <2>. SUFFICES ASSUME NEW i \in 1 .. Len(new), NEW j \in 1 .. Len(new), i < j,
                       new[i].kind # "tap", new[j].kind # "tap"
                PROVE  new[i].id < new[j].id
    OBVIOUS
  <2>1. i \in 1 .. Len(us) /\ new[i] = us[i] /\ us[i].id \in Nat
    BY <1>2, <1>3, <1>4
  <2>2. us[i].id <= written
    BY <2>1 DEF Pending
  <2>3. CASE j \in 1 .. Len(us)
    BY <1>2, <2>1, <2>3 DEF Pending
  <2>4. CASE j = Len(us) + 1
    BY <1>2, <2>1, <2>2, <2>4
  <2>. QED
    BY <1>4, <2>3, <2>4
<1>. QED
  BY <1>1, <1>2, <1>5, <1>6 DEF Pending

LEMMA PendingWaits ==
    ASSUME NEW us \in Seq(Work), NEW last \in Nat, NEW written \in Nat, Pending(us, last, written)
    PROVE  Pending(us, last, written + 1)
<1>1. \A i \in 1 .. Len(us) : us[i].id \in Nat
  BY WorkValues
<1>. QED
  BY <1>1 DEF Pending

(* The dispatcher takes the head: a message is then the last one taken.    *)
LEMMA PendingTaken ==
    ASSUME NEW us \in Seq(Work), NEW last \in Nat, NEW written \in Nat, us # <<>>,
           Pending(us, last, written)
    PROVE  /\ Head(us) \in Work /\ Tail(us) \in Seq(Work) /\ Pending(Tail(us), last, written)
           /\ Head(us).kind # "tap" =>
                 /\ last < Head(us).id /\ Head(us).id <= written
                 /\ Pending(Tail(us), Head(us).id, written)
<1>1. PICK new, h : new = Tail(us) /\ h = Head(us)
  OBVIOUS
<1>2. /\ Len(us) \in Nat /\ 1 \in 1 .. Len(us) /\ h = us[1] /\ h \in Work /\ new \in Seq(Work)
      /\ Len(new) = Len(us) - 1
      /\ \A i \in 1 .. Len(new) : new[i] = us[i + 1] /\ i + 1 \in 1 .. Len(us) /\ 1 < i + 1
  BY <1>1
<1>3. \A i \in 1 .. Len(us) : us[i].id \in Nat
  BY WorkValues
<1>4. \A i, j \in 1 .. Len(new) :
          (i < j /\ new[i].kind # "tap" /\ new[j].kind # "tap") => new[i].id < new[j].id
  BY <1>2 DEF Pending
<1>5. Pending(new, last, written)
  BY <1>2, <1>4 DEF Pending
<1>6. ASSUME h.kind # "tap"
      PROVE  last < h.id /\ h.id <= written /\ Pending(new, h.id, written)
  <2>1. last < h.id /\ h.id <= written
    BY <1>2, <1>6 DEF Pending
  <2>2. \A i \in 1 .. Len(new) : new[i].kind # "tap" => h.id < new[i].id /\ new[i].id <= written
    BY <1>2, <1>6 DEF Pending
  <2>. QED
    BY <1>4, <2>1, <2>2 DEF Pending
<1>. QED
  BY <1>1, <1>2, <1>5, <1>6

LEMMA HandedOver ==
    ASSUME NEW out \in Seq(Handed), NEW last \in Nat, NEW x \in Handed, x.id = last,
           \A i \in 1 .. Len(out) : out[i].id < last, InOrder(out, last)
    PROVE  Append(out, x) \in Seq(Handed) /\ InOrder(Append(out, x), last)
<1>1. PICK new : new = Append(out, x)
  OBVIOUS
<1>2. /\ new \in Seq(Handed) /\ Len(new) = Len(out) + 1 /\ Len(out) \in Nat /\ new[Len(out) + 1] = x
      /\ \A i \in 1 .. Len(out) : new[i] = out[i]
  BY <1>1
<1>3. \A i \in 1 .. Len(new) : i \in 1 .. Len(out) \/ i = Len(out) + 1
  BY <1>2
<1>. QED
  BY <1>1, <1>2, <1>3 DEF InOrder

(* Taking a message leaves what was handed over before it.                 *)
LEMMA LastGrows ==
    ASSUME NEW out \in Seq(Handed), NEW acks \in Seq(Nat), NEW last \in Nat, NEW next \in Nat,
           last < next, InOrder(out, last), NotAhead(acks, last)
    PROVE  /\ InOrder(out, next) /\ NotAhead(acks, next)
           /\ \A i \in 1 .. Len(out) : out[i].id < next
<1>1. \A i \in 1 .. Len(out) : out[i].id \in Nat
  <2>1. \A x \in Handed : x.id \in Nat
    BY DEF Handed
  <2>. QED
    BY <2>1
<1>2. \A i \in 1 .. Len(acks) : acks[i] \in Nat
  OBVIOUS
<1>. QED
  BY <1>1, <1>2 DEF InOrder, NotAhead

-----------------------------------------------------------------------------
(* Every step is one of a chat: it changes the queues of that chat only.   *)
LEMMA SameEntry ==
    ASSUME NEW S, NEW f \in [Chats -> S], NEW c \in Chats
    PROVE  f = [f EXCEPT ![c] = f[c]]
  OBVIOUS

LEMMA OneChat ==
    ASSUME TypeInv, AckInv, NEW c \in Chats, NEW u \in Seq(Work), NEW w \in Work, NEW l \in Nat,
           NEW o \in Seq(Handed), NEW a \in Seq(Nat),
           updates' = [updates EXCEPT ![c] = u], worker' = [worker EXCEPT ![c] = w],
           lastMsg' = [lastMsg EXCEPT ![c] = l], outbound' = [outbound EXCEPT ![c] = o],
           toAck' = [toAck EXCEPT ![c] = a], asker' = asker,
           messages' \in {messages, messages + 1}, l <= messages',
           Pending(u, l, messages'), InOrder(o, l), Underway(w, l, o), NotAhead(a, l), AckedInv'
    PROVE  TypeInv' /\ AckInv'
<1>1. /\ messages \in Nat /\ asker \in [Requests -> Chats] /\ updates \in [Chats -> Seq(Work)]
      /\ worker \in [Chats -> Work] /\ lastMsg \in [Chats -> Nat]
      /\ outbound \in [Chats -> Seq(Handed)] /\ toAck \in [Chats -> Seq(Nat)]
  BY DEF TypeInv, UserType, WorkerType, AckType
<1>2. UserType'
  BY <1>1 DEF UserType
<1>3. WorkerType'
  BY <1>1 DEF WorkerType
<1>4. AckType'
  BY <1>1 DEF AckType
<1>5. ASSUME NEW d \in Chats PROVE ChatInv(d)'
  <2>1. CASE d = c
    <3>1. updates'[d] = u /\ worker'[d] = w /\ lastMsg'[d] = l /\ outbound'[d] = o /\ toAck'[d] = a
      BY <1>1, <2>1
    <3>. QED
      BY <3>1 DEF ChatInv
  <2>2. CASE d # c
    <3>1. /\ updates'[d] = updates[d] /\ worker'[d] = worker[d] /\ lastMsg'[d] = lastMsg[d]
          /\ outbound'[d] = outbound[d] /\ toAck'[d] = toAck[d]
      BY <1>1, <2>2
    <3>2. ChatInv(d) /\ updates[d] \in Seq(Work) /\ lastMsg[d] \in Nat
      BY <1>1 DEF AckInv
    <3>3. lastMsg[d] <= messages'
      BY <1>1, <3>2 DEF ChatInv
    <3>4. Pending(updates[d], lastMsg[d], messages')
      BY <1>1, <3>2, PendingWaits DEF ChatInv
    <3>. QED
      BY <3>1, <3>2, <3>3, <3>4 DEF ChatInv
  <2>. QED
    BY <2>1, <2>2
<1>. QED
  BY <1>2, <1>3, <1>4, <1>5 DEF TypeInv, AckInv

LEMMA ChatValues ==
    ASSUME TypeInv, AckInv, NEW c \in Chats
    PROVE  /\ messages \in Nat /\ updates[c] \in Seq(Work) /\ worker[c] \in Work
           /\ lastMsg[c] \in Nat /\ outbound[c] \in Seq(Handed) /\ toAck[c] \in Seq(Nat)
           /\ updates = [updates EXCEPT ![c] = updates[c]]
           /\ worker = [worker EXCEPT ![c] = worker[c]]
           /\ lastMsg = [lastMsg EXCEPT ![c] = lastMsg[c]]
           /\ outbound = [outbound EXCEPT ![c] = outbound[c]]
           /\ toAck = [toAck EXCEPT ![c] = toAck[c]]
           /\ ChatInv(c) /\ AckedInv
<1>1. /\ messages \in Nat /\ updates \in [Chats -> Seq(Work)]
      /\ worker \in [Chats -> Work] /\ lastMsg \in [Chats -> Nat]
      /\ outbound \in [Chats -> Seq(Handed)] /\ toAck \in [Chats -> Seq(Nat)]
  BY DEF TypeInv, UserType, WorkerType, AckType
<1>2. ChatInv(c) /\ AckedInv
  BY DEF AckInv
<1>. QED
  BY <1>1, <1>2, SameEntry

LEMMA Elsewhere ==
    ASSUME TypeInv, AckInv,
           UNCHANGED <<messages, asker, updates, worker, lastMsg, outbound, toAck, acked>>
    PROVE  TypeInv' /\ AckInv'
<1>1. TypeInv'
  BY DEF TypeInv, UserType, WorkerType, AckType
<1>2. AckedInv'
  BY DEF AckInv, AckedInv
<1>3. ASSUME NEW d \in Chats PROVE ChatInv(d)'
  <2>1. ChatInv(d)
    BY DEF AckInv
  <2>. QED
    BY <2>1 DEF ChatInv
<1>. QED
  BY <1>1, <1>2, <1>3 DEF AckInv

(* Between taking a message and handing it over the worker goes on with    *)
(* it, or with a tap.                                                      *)
LEMMA WorkGoesOn ==
    ASSUME TypeInv, AckInv, NEW c \in Chats, NEW w \in Work,
           worker' = [worker EXCEPT ![c] = w],
           UNCHANGED <<messages, asker, updates, lastMsg, outbound, toAck, acked>>,
           w.at \in {"photo", "reply photo", "send"} =>
               worker[c].at \in {"photo", "reply photo", "send"} /\ w.id = worker[c].id
    PROVE  TypeInv' /\ AckInv'
<1>1. Underway(w, lastMsg[c], outbound[c])
  BY ChatValues DEF ChatInv, Underway
<1>2. AckedInv'
  BY ChatValues DEF AckedInv
<1>3. /\ lastMsg[c] <= messages' /\ Pending(updates[c], lastMsg[c], messages')
      /\ InOrder(outbound[c], lastMsg[c]) /\ NotAhead(toAck[c], lastMsg[c])
  BY ChatValues DEF ChatInv
<1>4. /\ updates' = [updates EXCEPT ![c] = updates[c]] /\ lastMsg' = [lastMsg EXCEPT ![c] = lastMsg[c]]
      /\ outbound' = [outbound EXCEPT ![c] = outbound[c]] /\ toAck' = [toAck EXCEPT ![c] = toAck[c]]
      /\ messages' \in {messages, messages + 1} /\ asker' = asker
  BY ChatValues
<1>5. /\ updates[c] \in Seq(Work) /\ lastMsg[c] \in Nat /\ outbound[c] \in Seq(Handed)
      /\ toAck[c] \in Seq(Nat)
  BY ChatValues
<1>. QED
  BY <1>1, <1>2, <1>3, <1>4, <1>5, OneChat

LEMMA AckStep ==
    ASSUME TypeInv, AckInv, NEW c \in Chats, HandleAckMessage(c)
    PROVE  TypeInv' /\ AckInv'
<1>1. toAck[c] # <<>> /\ toAck' = [toAck EXCEPT ![c] = Tail(toAck[c])]
  BY DEF HandleAckMessage
<1>2. UNCHANGED <<messages, asker, updates, worker, lastMsg, outbound>>
  BY DEF HandleAckMessage, harnessVars
<1>3. /\ Tail(toAck[c]) \in Seq(Nat) /\ NotAhead(Tail(toAck[c]), lastMsg[c])
      /\ Head(toAck[c]) <= lastMsg[c]
  <2>1. PICK new : new = Tail(toAck[c])
    OBVIOUS
  <2>2. /\ toAck[c] \in Seq(Nat) /\ Len(toAck[c]) \in Nat /\ 1 \in 1 .. Len(toAck[c])
        /\ Head(toAck[c]) = toAck[c][1]
        /\ new \in Seq(Nat) /\ Len(new) = Len(toAck[c]) - 1
        /\ \A i \in 1 .. Len(new) : new[i] = toAck[c][i + 1] /\ i + 1 \in 1 .. Len(toAck[c])
    BY <1>1, <2>1, ChatValues
  <2>3. NotAhead(toAck[c], lastMsg[c])
    BY ChatValues DEF ChatInv
  <2>. QED
    BY <2>1, <2>2, <2>3 DEF NotAhead
<1>4. AckedInv'
  <2>1. acked' = acked \/ acked' = acked \cup {<<Head(toAck[c]), lastMsg[c]>>}
    BY DEF HandleAckMessage
  <2>. QED
    BY <1>3, <2>1, ChatValues DEF AckedInv
<1>5. /\ lastMsg[c] <= messages' /\ Pending(updates[c], lastMsg[c], messages')
      /\ InOrder(outbound[c], lastMsg[c]) /\ Underway(worker[c], lastMsg[c], outbound[c])
  BY <1>2, ChatValues DEF ChatInv
<1>6. /\ updates' = [updates EXCEPT ![c] = updates[c]] /\ lastMsg' = [lastMsg EXCEPT ![c] = lastMsg[c]]
      /\ outbound' = [outbound EXCEPT ![c] = outbound[c]] /\ worker' = [worker EXCEPT ![c] = worker[c]]
      /\ messages' \in {messages, messages + 1} /\ asker' = asker
  BY <1>2, ChatValues
<1>7. /\ updates[c] \in Seq(Work) /\ lastMsg[c] \in Nat /\ outbound[c] \in Seq(Handed)
      /\ worker[c] \in Work
  BY ChatValues
<1>. QED
  BY <1>1, <1>3, <1>4, <1>5, <1>6, <1>7, OneChat

(* A user writes or taps.                                                  *)
LEMMA UpdateStep ==
    ASSUME TypeInv, AckInv, NEW c \in Chats, NEW u \in Work,
           updates' = [updates EXCEPT ![c] = Append(updates[c], u)],
           UNCHANGED <<asker, worker, lastMsg, outbound, toAck, acked>>,
           \/ u.kind = "tap" /\ messages' = messages
           \/ u.id = messages + 1 /\ messages' = messages + 1
    PROVE  TypeInv' /\ AckInv'
<1>1. /\ messages \in Nat /\ updates[c] \in Seq(Work) /\ lastMsg[c] \in Nat /\ worker[c] \in Work
      /\ outbound[c] \in Seq(Handed) /\ toAck[c] \in Seq(Nat)
  BY ChatValues
<1>2. /\ lastMsg[c] <= messages /\ Pending(updates[c], lastMsg[c], messages)
      /\ InOrder(outbound[c], lastMsg[c]) /\ Underway(worker[c], lastMsg[c], outbound[c])
      /\ NotAhead(toAck[c], lastMsg[c])
  BY ChatValues DEF ChatInv
<1>3. messages' \in Nat /\ messages' \in {messages, messages + 1} /\ lastMsg[c] <= messages'
  BY <1>1, <1>2
<1>4. Append(updates[c], u) \in Seq(Work) /\ Pending(Append(updates[c], u), lastMsg[c], messages')
  BY <1>1, <1>2, <1>3, PendingGrows
<1>5. AckedInv'
  BY ChatValues DEF AckedInv
<1>6. /\ worker' = [worker EXCEPT ![c] = worker[c]] /\ lastMsg' = [lastMsg EXCEPT ![c] = lastMsg[c]]
      /\ outbound' = [outbound EXCEPT ![c] = outbound[c]] /\ toAck' = [toAck EXCEPT ![c] = toAck[c]]
      /\ asker' = asker
  BY ChatValues
<1>. QED
  BY <1>1, <1>2, <1>3, <1>4, <1>5, <1>6, OneChat

LEMMA UserWritesStep ==
    ASSUME TypeInv, AckInv, NEW c \in Chats, NEW shape \in Shapes, UserWrites(c, shape)
    PROVE  TypeInv' /\ AckInv'
<1>1. messages \in Nat /\ messages' = messages + 1
  BY ChatValues DEF UserWrites
<1>2. shape.kind \in Sorts /\ shape.refers \in {"nothing", "name", "reply"}
  BY DEF Shapes, Sorts
<1>3. PICK u : u = [IdleWork EXCEPT !.id = messages + 1, !.kind = shape.kind, !.refers = shape.refers]
  OBVIOUS
<1>4. u \in Work /\ u.id = messages + 1
  <2>1. PICK n, k, f : n = messages + 1 /\ k = shape.kind /\ f = shape.refers
    OBVIOUS
  <2>2. n \in Nat /\ k \in Sorts /\ f \in {"nothing", "name", "reply"}
    BY <1>1, <1>2, <2>1
  <2>3. u = [IdleWork EXCEPT !.id = n, !.kind = k, !.refers = f]
    BY <1>3, <2>1
  <2>4. u \in Work /\ u.id = n
    BY <2>2, <2>3, WorkValues DEF Work
  <2>. QED
    BY <2>1, <2>4
<1>5. updates' = [updates EXCEPT ![c] = Append(updates[c], u)]
  BY <1>1, <1>3 DEF UserWrites
<1>6. UNCHANGED <<asker, worker, lastMsg, outbound, toAck, acked>>
  BY DEF UserWrites
<1>. QED
  BY <1>1, <1>4, <1>5, <1>6, UpdateStep

LEMMA UserTapsStep ==
    ASSUME TypeInv, AckInv, NEW r \in Requests, NEW o \in Options, UserTaps(r, o)
    PROVE  TypeInv' /\ AckInv'
<1>1. asker[r] \in Chats /\ r \in Nat
  BY InboundAssumption DEF TypeInv, UserType, Requests
<1>2. PICK u : u = [IdleWork EXCEPT !.id = r, !.kind = "tap", !.option = o]
  OBVIOUS
<1>3. "tap" \in Sorts /\ o \in Options \cup {"none"}
  BY DEF Sorts
<1>4. u \in Work /\ u.kind = "tap"
  <2>1. PICK t : t = [IdleWork EXCEPT !.id = r, !.kind = "tap"]
    OBVIOUS
  <2>2. t \in Work /\ t.kind = "tap"
    BY <1>1, <1>3, <2>1, WorkValues DEF Work
  <2>3. u = [t EXCEPT !.option = o]
    BY <1>2, <2>1, WorkValues DEF Work
  <2>. QED
    BY <1>3, <2>2, <2>3 DEF Work
<1>5. updates' = [updates EXCEPT ![asker[r]] = Append(updates[asker[r]], u)]
  BY <1>2 DEF UserTaps
<1>6. UNCHANGED <<messages, asker, worker, lastMsg, outbound, toAck, acked>>
  BY DEF UserTaps
<1>. QED
  BY <1>1, <1>4, <1>5, <1>6, UpdateStep

(* handle_text_message and handle_media_message: last_message_ids is set   *)
(* first, to a message that none handed over so far reaches.               *)
LEMMA MessageTakenStep ==
    ASSUME TypeInv, AckInv, NEW c \in Chats, HandleText(c) \/ HandleMedia(c)
    PROVE  TypeInv' /\ AckInv'
<1>1. PICK msg : msg = Head(updates[c])
  OBVIOUS
<1>2. /\ messages \in Nat /\ updates[c] \in Seq(Work) /\ lastMsg[c] \in Nat /\ worker[c] \in Work
      /\ outbound[c] \in Seq(Handed) /\ toAck[c] \in Seq(Nat)
  BY ChatValues
<1>3. /\ lastMsg[c] <= messages /\ Pending(updates[c], lastMsg[c], messages)
      /\ InOrder(outbound[c], lastMsg[c]) /\ NotAhead(toAck[c], lastMsg[c])
  BY ChatValues DEF ChatInv
<1>4. updates[c] # <<>> /\ msg.kind # "tap"
  BY <1>1 DEF HandleText, HandleMedia, Dispatchable, HasMedia
<1>5. /\ msg \in Work /\ Tail(updates[c]) \in Seq(Work)
      /\ lastMsg[c] < msg.id /\ msg.id <= messages /\ Pending(Tail(updates[c]), msg.id, messages)
  BY <1>1, <1>2, <1>3, <1>4, PendingTaken
<1>6. msg.id \in Nat
  BY <1>5, WorkValues
<1>7. PICK p \in {"photo", "reply photo", "send"} :
          worker' = [worker EXCEPT ![c] = [msg EXCEPT !.at = p]]
  BY <1>1 DEF HandleText, HandleMedia, Works, AfterPhoto
<1>8. PICK w : w = [msg EXCEPT !.at = p]
  OBVIOUS
<1>9. w \in Work /\ w.id = msg.id
  BY <1>5, <1>8 DEF Work, Stages
<1>10. /\ InOrder(outbound[c], msg.id) /\ NotAhead(toAck[c], msg.id)
       /\ \A i \in 1 .. Len(outbound[c]) : outbound[c][i].id < msg.id
  BY <1>2, <1>3, <1>5, <1>6, LastGrows
<1>11. Underway(w, msg.id, outbound[c])
  BY <1>9, <1>10 DEF Underway
<1>12. /\ updates' = [updates EXCEPT ![c] = Tail(updates[c])]
       /\ lastMsg' = [lastMsg EXCEPT ![c] = msg.id]
  BY <1>1 DEF HandleText, HandleMedia, Taken
<1>13. UNCHANGED <<messages, asker, outbound, toAck, acked>>
  BY DEF HandleText, HandleMedia, userVars
<1>14. AckedInv'
  BY <1>13, ChatValues DEF AckedInv
<1>15. /\ outbound' = [outbound EXCEPT ![c] = outbound[c]] /\ toAck' = [toAck EXCEPT ![c] = toAck[c]]
       /\ asker' = asker /\ messages' \in {messages, messages + 1} /\ messages' = messages
  BY <1>13, ChatValues
<1>16. msg.id <= messages' /\ Pending(Tail(updates[c]), msg.id, messages')
  BY <1>5, <1>15
<1>17. worker' = [worker EXCEPT ![c] = w]
  BY <1>7, <1>8
<1>. QED
  BY <1>2, <1>5, <1>6, <1>9, <1>10, <1>11, <1>12, <1>14, <1>15, <1>16, <1>17, OneChat

(* A message that is passed over and a tap leave last_message_ids alone.   *)
LEMMA OtherTakenStep ==
    ASSUME TypeInv, AckInv, NEW c \in Chats, IgnoreMessage(c) \/ TakeTap(c)
    PROVE  TypeInv' /\ AckInv'
<1>1. /\ messages \in Nat /\ updates[c] \in Seq(Work) /\ lastMsg[c] \in Nat /\ worker[c] \in Work
      /\ outbound[c] \in Seq(Handed) /\ toAck[c] \in Seq(Nat)
  BY ChatValues
<1>2. /\ lastMsg[c] <= messages /\ Pending(updates[c], lastMsg[c], messages)
      /\ InOrder(outbound[c], lastMsg[c]) /\ NotAhead(toAck[c], lastMsg[c])
      /\ Underway(worker[c], lastMsg[c], outbound[c])
  BY ChatValues DEF ChatInv
<1>3. updates[c] # <<>>
  BY DEF IgnoreMessage, TakeTap, Dispatchable
<1>4. /\ Head(updates[c]) \in Work /\ Tail(updates[c]) \in Seq(Work)
      /\ Pending(Tail(updates[c]), lastMsg[c], messages)
  BY <1>1, <1>2, <1>3, PendingTaken
<1>5. PICK h : h = Head(updates[c])
  OBVIOUS
<1>6. PICK t : t = [h EXCEPT !.at = "clear"]
  OBVIOUS
<1>7. t \in Work /\ t.at = "clear"
  BY <1>4, <1>5, <1>6 DEF Work, Stages
<1>8. PICK w \in Work : /\ worker' = [worker EXCEPT ![c] = w]
                        /\ Underway(w, lastMsg[c], outbound[c])
  <2>1. worker' = worker \/ worker' = [worker EXCEPT ![c] = t]
    BY <1>5, <1>6 DEF IgnoreMessage, TakeTap, Works
  <2>2. Underway(t, lastMsg[c], outbound[c])
    BY <1>7 DEF Underway
  <2>. QED
    BY <1>1, <1>2, <1>7, <2>1, <2>2, ChatValues
<1>9. /\ updates' = [updates EXCEPT ![c] = Tail(updates[c])]
      /\ UNCHANGED <<messages, asker, lastMsg, outbound, toAck, acked>>
  BY DEF IgnoreMessage, TakeTap, Taken, userVars
<1>10. AckedInv'
  BY <1>9, ChatValues DEF AckedInv
<1>11. /\ outbound' = [outbound EXCEPT ![c] = outbound[c]] /\ toAck' = [toAck EXCEPT ![c] = toAck[c]]
       /\ lastMsg' = [lastMsg EXCEPT ![c] = lastMsg[c]]
       /\ asker' = asker /\ messages' \in {messages, messages + 1} /\ messages' = messages
  BY <1>9, ChatValues
<1>12. lastMsg[c] <= messages' /\ Pending(Tail(updates[c]), lastMsg[c], messages')
  BY <1>2, <1>4, <1>11
<1>. QED
  BY <1>1, <1>2, <1>4, <1>8, <1>9, <1>10, <1>11, <1>12, OneChat

LEMMA WorkerStep ==
    ASSUME TypeInv, AckInv, NEW c \in Chats,
           ResolvePhotoUrl(c) \/ ClearKeyboard(c) \/ ProcessCallback(c)
    PROVE  TypeInv' /\ AckInv'
<1>1. worker[c] \in Work
  BY ChatValues
<1>2. UNCHANGED <<messages, asker, updates, lastMsg, outbound, toAck, acked>>
  BY DEF ResolvePhotoUrl, ClearKeyboard, ProcessCallback, userVars
<1>3. CASE ResolvePhotoUrl(c)
  <2>1. worker[c].at \in {"photo", "reply photo", "send"}
    BY <1>3 DEF ResolvePhotoUrl
  <2>2. PICK p \in {"reply photo", "send"}, ok \in BOOLEAN :
            \/ worker' = [worker EXCEPT ![c] = [worker[c] EXCEPT !.at = p, !.image = ok]]
            \/ worker' = [worker EXCEPT ![c] = [worker[c] EXCEPT !.at = p, !.replyImage = ok]]
    BY <1>3 DEF ResolvePhotoUrl, Works, AfterPhoto
  <2>3. PICK v, w : /\ v = [worker[c] EXCEPT !.at = p, !.image = ok]
                    /\ w = [worker[c] EXCEPT !.at = p, !.replyImage = ok]
    OBVIOUS
  <2>4. p \in Stages
    BY DEF Stages
  <2>5. v \in Work /\ v.id = worker[c].id
    BY <1>1, <2>3, <2>4 DEF Work
  <2>6. w \in Work /\ w.id = worker[c].id
    BY <1>1, <2>3, <2>4 DEF Work
  <2>. QED
    BY <1>2, <2>1, <2>2, <2>3, <2>5, <2>6, WorkGoesOn
<1>4. CASE ClearKeyboard(c)
  <2>1. PICK w : w = [worker[c] EXCEPT !.at = "resolve"]
    OBVIOUS
  <2>2. w \in Work /\ w.at = "resolve"
    BY <1>1, <2>1 DEF Work, Stages
  <2>3. worker' = [worker EXCEPT ![c] = w]
    BY <1>4, <2>1 DEF ClearKeyboard, Works
  <2>. QED
    BY <1>2, <2>2, <2>3, WorkGoesOn
<1>5. CASE ProcessCallback(c)
  <2>1. worker' = [worker EXCEPT ![c] = IdleWork]
    BY <1>5 DEF ProcessCallback, Works
  <2>. QED
    BY <1>2, <2>1, WorkValues, WorkGoesOn
<1>. QED
  BY <1>3, <1>4, <1>5

LEMMA ContentValues ==
    ASSUME NEW w
    PROVE  Content(w) \in Seq({"text", "image", "label"})
<1>1. PICK r : r = IF w.replyImage THEN <<"image">> ELSE <<>>
  OBVIOUS
<1>2. PICK t : t = IF w.kind = "text" THEN <<"text">> ELSE IF w.image THEN <<"image">> ELSE <<"label">>
  OBVIOUS
<1>3. r \in Seq({"text", "image", "label"}) /\ t \in Seq({"text", "image", "label"})
  <2>1. \A S : <<>> \in Seq(S) /\ \A x \in S : <<x>> \in Seq(S)
    OBVIOUS
  <2>2. /\ <<>> \in Seq({"text", "image", "label"})
        /\ \A x \in {"text", "image", "label"} : <<x>> \in Seq({"text", "image", "label"})
    BY <2>1
  <2>3. /\ <<"text">> \in Seq({"text", "image", "label"})
        /\ <<"image">> \in Seq({"text", "image", "label"})
        /\ <<"label">> \in Seq({"text", "image", "label"})
    BY <2>2, Zenon
  <2>. QED
    BY <1>1, <1>2, <2>2, <2>3, Zenon
<1>4. Content(w) = r \o t
  BY <1>1, <1>2 DEF Content
<1>. QED
  BY <1>3, <1>4

LEMMA ProcessMessageStep ==
    ASSUME TypeInv, AckInv, NEW c \in Chats, ProcessMessage(c)
    PROVE  TypeInv' /\ AckInv'
<1>1. /\ messages \in Nat /\ updates[c] \in Seq(Work) /\ lastMsg[c] \in Nat /\ worker[c] \in Work
      /\ outbound[c] \in Seq(Handed) /\ toAck[c] \in Seq(Nat)
  BY ChatValues
<1>2. /\ lastMsg[c] <= messages /\ Pending(updates[c], lastMsg[c], messages)
      /\ InOrder(outbound[c], lastMsg[c]) /\ NotAhead(toAck[c], lastMsg[c])
      /\ Underway(worker[c], lastMsg[c], outbound[c])
  BY ChatValues DEF ChatInv
<1>3. worker[c].id = lastMsg[c] /\ \A i \in 1 .. Len(outbound[c]) : outbound[c][i].id < lastMsg[c]
  BY <1>2 DEF ProcessMessage, Underway
<1>4. PICK pe, co, re, me : /\ pe = PeerInfoFromChat(c) /\ co = Content(worker[c])
                            /\ re = ReplyMetadata(worker[c]) /\ me = BotMentioned(c, worker[c].refers)
  OBVIOUS
<1>5. /\ pe \in {"group", "direct"} /\ re \in {"image", "none"}
      /\ co \in Seq({"text", "image", "label"})
  BY <1>4, ContentValues DEF PeerInfoFromChat, ReplyMetadata
<1>6. me \in BOOLEAN
  BY <1>4, Zenon DEF BotMentioned
<1>7. PICK x : x = [id |-> worker[c].id, peer |-> pe, content |-> co, reply |-> re, mentioned |-> me]
  OBVIOUS
<1>8. x \in Handed /\ x.id = lastMsg[c]
  BY <1>1, <1>3, <1>5, <1>6, <1>7 DEF Handed
<1>9. /\ worker' = [worker EXCEPT ![c] = IdleWork]
      /\ outbound' = [outbound EXCEPT ![c] = Append(outbound[c], x)]
      /\ toAck' = [toAck EXCEPT ![c] = Append(toAck[c], lastMsg[c])]
  BY <1>3, <1>4, <1>7 DEF ProcessMessage, Works
<1>10. Append(outbound[c], x) \in Seq(Handed) /\ InOrder(Append(outbound[c], x), lastMsg[c])
  BY <1>1, <1>2, <1>3, <1>8, HandedOver
<1>11. Append(toAck[c], lastMsg[c]) \in Seq(Nat) /\ NotAhead(Append(toAck[c], lastMsg[c]), lastMsg[c])
  BY <1>1, <1>2 DEF NotAhead
<1>12. Underway(IdleWork, lastMsg[c], Append(outbound[c], x)) /\ IdleWork \in Work
  BY WorkValues DEF Underway
<1>13. UNCHANGED <<messages, asker, updates, lastMsg, acked>>
  BY DEF ProcessMessage, userVars
<1>14. AckedInv'
  BY <1>13, ChatValues DEF AckedInv
<1>15. /\ updates' = [updates EXCEPT ![c] = updates[c]] /\ lastMsg' = [lastMsg EXCEPT ![c] = lastMsg[c]]
       /\ asker' = asker /\ messages' \in {messages, messages + 1} /\ messages' = messages
  BY <1>13, ChatValues
<1>16. lastMsg[c] <= messages' /\ Pending(updates[c], lastMsg[c], messages')
  BY <1>2, <1>15
<1>. QED
  BY <1>1, <1>9, <1>10, <1>11, <1>12, <1>14, <1>15, <1>16, OneChat

-----------------------------------------------------------------------------
LEMMA AckInvariant == Spec => [](TypeInv /\ AckInv)
<1>1. Init => TypeInv /\ AckInv
  <2>. SUFFICES ASSUME Init PROVE TypeInv /\ AckInv
    OBVIOUS
  <2>1. TypeInv
    BY WorkValues DEF Init, TypeInv, UserType, WorkerType, AckType
  <2>2. ASSUME NEW c \in Chats PROVE ChatInv(c)
    <3>1. /\ messages = 0 /\ lastMsg[c] = 0 /\ updates[c] = <<>> /\ outbound[c] = <<>>
          /\ worker[c] = IdleWork /\ toAck[c] = <<>>
      BY DEF Init
    <3>. QED
      BY <3>1, WorkValues DEF ChatInv, Pending, InOrder, Underway, NotAhead
  <2>. QED
    BY <2>1, <2>2 DEF Init, AckInv, AckedInv
<1>2. TypeInv /\ AckInv /\ [Next]_vars => TypeInv' /\ AckInv'
  <2>. SUFFICES ASSUME TypeInv, AckInv, [Next]_vars PROVE TypeInv' /\ AckInv'
    OBVIOUS
  <2>1. CASE OnInitialize \/ OnReady \/ RememberPrompt \/ RegisterPrompt
    <3>1. UNCHANGED <<messages, asker, updates, worker, lastMsg, outbound, toAck, acked>>
      BY <2>1 DEF OnInitialize, OnReady, RememberPrompt, RegisterPrompt, userVars
    <3>. QED
      BY <3>1, Elsewhere
  <2>2. ASSUME NEW c \in Chats, OnSessionCreated(c) \/ HandleAckLifecycle(c)
        PROVE  TypeInv' /\ AckInv'
    <3>1. UNCHANGED <<messages, asker, updates, worker, lastMsg, outbound, toAck, acked>>
      BY <2>2 DEF OnSessionCreated, HandleAckLifecycle, userVars
    <3>. QED
      BY <3>1, Elsewhere
  <2>3. ASSUME NEW r \in Requests, ShowPermissionPrompt(r)
        PROVE  TypeInv' /\ AckInv'
    <3>1. UNCHANGED <<messages, asker, updates, worker, lastMsg, outbound, toAck, acked>>
      BY <2>3 DEF ShowPermissionPrompt
    <3>. QED
      BY <3>1, Elsewhere
  <2>4. CASE UNCHANGED vars
    <3>1. UNCHANGED <<messages, asker, updates, worker, lastMsg, outbound, toAck, acked>>
      BY <2>4 DEF vars, userVars
    <3>. QED
      BY <3>1, Elsewhere
  <2>5. CASE Harness
    BY <2>1, <2>2, <2>5, AckStep DEF Harness
  <2>6. ASSUME NEW c \in Chats, Dispatcher(c) PROVE TypeInv' /\ AckInv'
    BY <2>6, MessageTakenStep, OtherTakenStep, WorkerStep, ProcessMessageStep DEF Dispatcher
  <2>. QED
    BY <2>3, <2>4, <2>5, <2>6, UserTapsStep, UserWritesStep DEF Next
<1>. QED
  BY <1>1, <1>2, PTL DEF Spec

(* last_message_ids is set before the photo of a message is fetched and    *)
(* the message handed over: with any number of chats written to at once,   *)
(* slow downloads and late acknowledgements, a reaction never lands on a   *)
(* message older than the one it acknowledges, and a chat's messages reach *)
(* the supervisor in the order in which they were written.                 *)
THEOREM AckNotEarlierHolds == Spec => []AckNotEarlier
<1>1. TypeInv /\ AckInv => AckNotEarlier
  <2>. SUFFICES ASSUME TypeInv, AckInv PROVE AckNotEarlier
    OBVIOUS
  <2>1. \A a \in acked : a[1] <= a[2]
    BY DEF AckInv, AckedInv
  <2>2. ASSUME NEW c \in Chats, NEW i \in DOMAIN outbound[c], NEW j \in DOMAIN outbound[c], i < j
        PROVE  outbound[c][i].id < outbound[c][j].id
    <3>1. outbound[c] \in Seq(Handed) /\ InOrder(outbound[c], lastMsg[c])
      BY ChatValues DEF ChatInv
    <3>2. i \in 1 .. Len(outbound[c]) /\ j \in 1 .. Len(outbound[c])
      BY <3>1
    <3>. QED
      BY <2>2, <3>1, <3>2 DEF InOrder
  <2>. QED
    BY <2>1, <2>2 DEF AckNotEarlier
<1>. QED
  BY <1>1, AckInvariant, PTL
==============================================================================
