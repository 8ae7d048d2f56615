----------------------------- MODULE Net4gFifo -----------------------------
(***************************************************************************)
(* The receive FIFO of the 4G UART, byte by byte: net4g_uart_recv_cb,      *)
(* which the UART driver calls with each burst of bytes,                   *)
(* get_key_data_index, which looks for a keyword in the ring, and          *)
(* recv_cmd_from_fifo, which cuts commands out of it, one step per pass of *)
(* the task, with bursts arriving between any two steps.                   *)
(*                                                                         *)
(* The modem sends lines, each ending with the tail keyword.  A command     *)
(* begins with the header and carries a binary payload, in which any byte  *)
(* may stand, those of the keywords too; nothing is assumed of the rest of *)
(* a line.  Nothing in the code keeps a burst from overrunning the ring;   *)
(* overrun records that one did.  The lines that get_net4G_recv_cmd looks  *)
(* for besides commands (acknowledgements, the loss of the connection, the *)
(* restart banner) are those of Net4gPub; none is acted on here.           *)
(***************************************************************************)
EXTENDS Integers, FiniteSets, Sequences, SequencesExt

CONSTANTS
  SIZE,          \* NET_4G_UART_RECV_FIFO_SIZE
  WIDTH,         \* recv_len counts modulo WIDTH (2^8)
  Header, End,   \* NET_MQTT_CTRL_CMD_HEAD, NET_MQTT_CTRL_CMD_TAIL
  Lines,         \* the lines the modem may send
  MaxBurst,      \* longest burst
  MaxLines       \* lines sent in all

NUL == "0"

Symbols == {NUL} \cup UNION {Range(s) : s \in {Header, End} \cup Lines}

\* The first byte of a keyword does not occur in it again, the keywords have no byte
\* in common and neither has the one that ends a string; a line ends with the tail.
ASSUME FifoAssumption ==
  /\ SIZE \in Nat \ {0} /\ WIDTH \in Nat /\ WIDTH <= SIZE
  /\ MaxBurst \in Nat \ {0} /\ MaxLines \in Nat
  /\ Header \in Seq(Symbols) /\ End \in Seq(Symbols) /\ Lines \subseteq Seq(Symbols)
  /\ Len(Header) > 1 /\ Len(End) = 2 /\ Len(Header) + 1 + Len(End) < SIZE - Len(End)
  /\ NUL \notin Range(Header) \cup Range(End) /\ Range(Header) \cap Range(End) = {}
  /\ \A key \in {Header, End}, n \in 2 .. SIZE : n <= Len(key) => key[n] # key[1]
  /\ \A line \in Lines : IsSuffix(End, line)

VARIABLES
  data, head, tail,                     \* gNet4g_dataStruct.recv.fifo
  cmd_get_step, cmdHead_index, cmdTail_index,   \* statics of recv_cmd_from_fifo
  headFail,      \* it has returned 2; get_net4G_recv_cmd has not yet acted on it
  wire,          \* bytes the modem has still to send of its line
  lines,         \* lines begun
  said,          \* history: the bytes of all lines begun
  got,           \* history: what recv_cmd_from_fifo cut out, and where in said
  unread,        \* history: bytes received and not yet passed over
  overrun,       \* history: a burst was longer than recv_len counts, or the ring holds
  confused       \* history: a search met the case get_key_data_index gets wrong

fifo == <<data, head, tail>>
modem == <<wire, lines, said, overrun>>
vars == <<data, head, tail, cmd_get_step, cmdHead_index, cmdTail_index, headFail, wire, lines,
          said, got, unread, overrun, confused>>

\* The byte at data[i]; past the ring lies whatever follows it in memory, taken
\* to be no byte of a keyword.
Outside == "?"
Byte(i) == IF i \in DOMAIN data THEN data[i] ELSE Outside

Init ==
  /\ data = [i \in 0 .. SIZE - 1 |-> NUL]
  /\ head \in 0 .. SIZE - 1 /\ tail = head
  /\ cmd_get_step = 0 /\ cmdHead_index = 0 /\ cmdTail_index = 0
  /\ headFail = FALSE
  /\ wire = <<>> /\ lines = 0
  /\ said = <<>> /\ got = <<>> /\ unread = <<>>
  /\ overrun = FALSE /\ confused = FALSE

-----------------------------------------------------------------------------
(* net4g_uart_recv_cb *)

\* network_uart_recv: the bytes go to data[at], data[at + 1], ...
Stored(d, at, bytes) ==
  [i \in DOMAIN d |-> IF i - at + 1 \in DOMAIN bytes THEN bytes[i - at + 1] ELSE d[i]]

\* Faulty variant: recv_len is not reduced by the first part when tail is set.
WrapBurstWholeLength(bytes) ==
  LET first == (SIZE - tail) % WIDTH
  IN [data |-> Stored(Stored(data, tail, SubSeq(bytes, 1, first)), 0,
                      SubSeq(bytes, first + 1, Len(bytes))),
      tail |-> Len(bytes)]

\* The ring and its tail after a burst that reaches the end of the ring.
WrapBurst(bytes) ==
  LET first == (SIZE - tail) % WIDTH
      rest  == (Len(bytes) - first) % WIDTH
  IN [data |-> Stored(Stored(data, tail, SubSeq(bytes, 1, first)), 0,
                      SubSeq(bytes, first + 1, first + rest)),
      tail |-> rest]

\* Otherwise.
PlainBurst(bytes) ==
  [data |-> Stored(data, tail, bytes), tail |-> tail + Len(bytes)]

\* Faulty variant: the byte after the last one keeps what it had.
TerminatedNot(d, at) == d

\* The byte after the last one is cleared, so that a search stops there.
Terminated(d, at) == [d EXCEPT ![at] = NUL]

net4g_uart_recv_cb(bytes) ==
  LET after == IF tail + Len(bytes) >= SIZE THEN WrapBurst(bytes) ELSE PlainBurst(bytes) IN
  /\ data' = Terminated(after.data, after.tail)
  /\ tail' = after.tail
  /\ unread' = unread \o bytes

-----------------------------------------------------------------------------
(* get_key_data_index *)

NotFound == -1
Least(S) == IF S = {} THEN NotFound ELSE CHOOSE n \in S : \A m \in S : n <= m

\* key[j .. l] stands at data[i].
Stands(i, key, j, l) == \A n \in j .. l : Byte(i + n - j) = key[n]

\* Where the loops stop to compare: the first byte of the keyword.
Starts(from, to, key) == {i \in from .. to - 1 : data[i] = key[1]}

\* The starts up to i, in a row, at which that much of the keyword stands.
InRow(from, to, key, len, i) ==
  LET starts == Starts(from, to, key) IN
  {c \in starts : c <= i /\ \A d \in starts : c <= d /\ d <= i => Stands(d, key, 1, len)}

\* Where a loop over from .. to - 1 with keyWordLen = len ends: sameKey_count grows by
\* len at each start where that much of the keyword stands, goes back to 0 at any
\* other, and the loop ends where it is the whole length.
LoopEnd(from, to, key, len) ==
  Least({i \in Starts(from, to, key) : Cardinality(InRow(from, to, key, len, i)) * len = Len(key)})

\* Where the count began: sameKey_index of the first two loops.  The third sets it
\* to the place where the loop ends.
Loop(from, to, key, len) == Least(InRow(from, to, key, len, LoopEnd(from, to, key, len)))

\* The starts from head to the end of the ring that are too near the end for the
\* whole keyword: each cuts keyWordLen to what is left of the ring, the last one for
\* good, unless it is the beginning of a split keyword.
NearEnd(key) == {i \in Starts(head, SIZE, key) : i + Len(key) > SIZE}

\* The rest of a split keyword, key[j] on: the comparison is made where key[j] is
\* first seen, and the count is lost if that fails.
RestStands(key, j) ==
  LET at == Least({i \in 0 .. tail - 1 : data[i] = key[j]})
  IN at # NotFound /\ Stands(at, key, j, Len(key))

\* The index found, or NotFound.
get_key_data_index(key) ==
  IF tail >= head THEN Loop(head, tail, key, Len(key))
  ELSE LET near  == NearEnd(key)
           upper == Loop(head, SIZE - Len(key) + 1, key, Len(key))
           last  == Max(near)
           left  == SIZE - last
       IN CASE upper # NotFound -> upper
            [] upper = NotFound /\ near = {} -> LoopEnd(0, tail, key, Len(key))
            [] OTHER -> IF Stands(last, key, 1, left)
                        THEN IF RestStands(key, left + 1) THEN last ELSE NotFound
                        ELSE LoopEnd(0, tail, key, left)

\* Whether the keyword was found and where.
Found(key) == get_key_data_index(key) # NotFound
Index(key) == get_key_data_index(key)

\* What the search is for: the first place among the bytes, if any.
FirstIn(bytes, key) ==
  Least({n \in 1 .. Len(bytes) - Len(key) + 1 : SubSeq(bytes, n, n + Len(key) - 1) = key})

\* The case it is not made for: the data goes on at the beginning of the ring,
\* and too near its end for the whole keyword stands its first byte, followed by
\* something else.
Ambiguous(key) ==
  /\ tail < head
  /\ \E i \in head .. SIZE - 1 :
       LET from == SubSeq(unread, i - head + 1, Len(unread)) IN
       /\ i + Len(key) > SIZE /\ data[i] = key[1]
       /\ ~IsPrefix(key, from) /\ ~IsPrefix(from, key)

-----------------------------------------------------------------------------
(* recv_cmd_from_fifo, one step of its switch for each pass *)

Passed(from, to) == SubSeq(unread, ((to - from) % SIZE) + 1, Len(unread))

dataLen == IF tail > head THEN tail - head ELSE SIZE - head + tail

GetStart ==
  /\ ~headFail /\ cmd_get_step = 0
  /\ tail # head
  /\ \/ /\ dataLen >= Len(Header)
        /\ cmdHead_index' = 0 /\ cmdTail_index' = 0 /\ cmd_get_step' = 1
        /\ UNCHANGED headFail
     \/ /\ dataLen > 0 /\ dataLen < Len(Header)
        /\ headFail' = TRUE
        /\ UNCHANGED <<cmdHead_index, cmdTail_index, cmd_get_step>>
  /\ UNCHANGED <<fifo, modem, got, unread, confused>>

GetHead ==
  /\ ~headFail /\ cmd_get_step = 1
  /\ confused' = (confused \/ Ambiguous(Header))
  /\ \/ /\ Found(Header)
        /\ cmdHead_index' = Index(Header)
        /\ head' = Index(Header) /\ unread' = Passed(head, Index(Header))
        /\ cmd_get_step' = 2
        /\ UNCHANGED headFail
     \/ /\ ~Found(Header)
        /\ cmd_get_step' = 0 /\ headFail' = TRUE
        /\ UNCHANGED <<cmdHead_index, head, unread>>
  /\ UNCHANGED <<data, tail, cmdTail_index, modem, got>>

\* Faulty variant: a missing tail is taken for a missing header.
GetTailOnce ==
  /\ ~headFail /\ cmd_get_step = 2
  /\ confused' = (confused \/ Ambiguous(End))
  /\ \/ /\ Found(End)
        /\ cmdTail_index' = Index(End) + Len(End)
        /\ cmd_get_step' = 3
        /\ UNCHANGED headFail
     \/ /\ ~Found(End)
        /\ cmd_get_step' = 0 /\ headFail' = TRUE
        /\ UNCHANGED cmdTail_index
  /\ UNCHANGED <<fifo, cmdHead_index, modem, got, unread>>

GetTail ==
  /\ ~headFail /\ cmd_get_step = 2
  /\ confused' = (confused \/ Ambiguous(End))
  /\ \/ /\ Found(End)
        /\ cmdTail_index' = Index(End) + Len(End)
        /\ cmd_get_step' = 3
     \/ /\ ~Found(End)
        /\ cmd_get_step' = 0
        /\ UNCHANGED cmdTail_index
  /\ UNCHANGED <<fifo, cmdHead_index, headFail, modem, got, unread>>

\* What is copied to destCmdData.
Bytes(from, to) == [n \in 1 .. to - from |-> Byte(from + n - 1)]
Cut ==
  IF cmdTail_index > cmdHead_index THEN Bytes(cmdHead_index, cmdTail_index)
  ELSE Bytes(cmdHead_index, SIZE) \o Bytes(0, cmdTail_index)

\* The number of the first unread byte among those of all lines begun.
Position == Len(said) - Len(unread) - Len(wire) + 1

\* Faulty variant: head stays at the command.
GetCmdKeepsHead ==
  /\ ~headFail /\ cmd_get_step = 3
  /\ got' = Append(got, [cut |-> Cut, at |-> Position])
  /\ cmd_get_step' = 0
  /\ UNCHANGED <<fifo, cmdHead_index, cmdTail_index, headFail, modem, unread, confused>>

GetCmd ==
  /\ ~headFail /\ cmd_get_step = 3
  /\ got' = Append(got, [cut |-> Cut, at |-> Position])
  /\ head' = cmdTail_index /\ unread' = Passed(head, cmdTail_index)
  /\ cmd_get_step' = 0
  /\ UNCHANGED <<data, tail, cmdHead_index, cmdTail_index, headFail, modem, confused>>

recv_cmd_from_fifo == GetStart \/ GetHead \/ GetTail \/ GetCmd

\* get_net4G_recv_cmd after "get head fail": everything received so far is passed
\* over, what came in since the search failed too.
DropUnread ==
  /\ headFail
  /\ head' = tail /\ unread' = <<>>
  /\ headFail' = FALSE
  /\ UNCHANGED <<data, tail, cmd_get_step, cmdHead_index, cmdTail_index, modem, got, confused>>

get_net4G_recv_cmd == recv_cmd_from_fifo \/ DropUnread

-----------------------------------------------------------------------------
(* The modem *)

StartLine ==
  /\ wire = <<>> /\ lines < MaxLines
  /\ lines' = lines + 1
  /\ \E line \in Lines : wire' = line /\ said' = said \o line
  /\ UNCHANGED <<fifo, cmd_get_step, cmdHead_index, cmdTail_index, headFail, got, unread,
                 overrun, confused>>

\* Bytes the ring takes safely.  It is not SIZE - 1: where a command ended at the end
\* of the ring, head points past it, and tail must not come round before it is moved.
Room == SIZE - Len(End)

Burst ==
  \E n \in 1 .. MaxBurst :
    /\ n <= Len(wire)
    /\ net4g_uart_recv_cb(SubSeq(wire, 1, n))
    /\ wire' = SubSeq(wire, n + 1, Len(wire))
    /\ overrun' = (overrun \/ n >= WIDTH \/ Len(unread) + n >= Room)
    /\ UNCHANGED <<head, cmd_get_step, cmdHead_index, cmdTail_index, headFail, lines, said, got,
                   confused>>

Next == StartLine \/ Burst \/ get_net4G_recv_cmd
Spec == Init /\ [][Next]_vars

\* The task looks into the ring again and again; the modem finishes a line it
\* has begun.
FairSpec == Spec /\ WF_vars(get_net4G_recv_cmd) /\ WF_vars(Burst)

-----------------------------------------------------------------------------
(* Properties *)

Excused == overrun \/ confused

\* The ring between head and tail holds exactly the bytes received and not yet
\* passed over, in their order, whichever way bursts fall across the end of the ring.
\* Only head goes past the end of the ring, by less than the tail keyword is long,
\* when a command ends there: cmdTail_index is computed without wrapping, and the
\* next search copes with it.
StoredFaithfully ==
  \/ Excused
  \/ LET n == (tail - head) % SIZE IN
     /\ tail \in 0 .. SIZE - 1 /\ head \in 0 .. SIZE + Len(End) - 1
     /\ unread = [i \in 1 .. n |-> data[(head + i - 1) % SIZE]]

\* get_key_data_index finds the first whole keyword among the unread bytes and
\* nothing else, split by the end of the ring or not, except in the ambiguous case.
SearchRight ==
  \/ Excused
  \/ \A key \in {Header, End} :
       ~Ambiguous(key) =>
         LET n == FirstIn(unread, key) IN
         /\ Found(key) <=> n # NotFound
         /\ Found(key) => Index(key) = (head + n - 1) % SIZE

\* Whether the keyword stands in what was sent, from the n-th byte on.
SaidAt(n, key) ==
  n + Len(key) - 1 <= Len(said) /\ \A m \in 1 .. Len(key) : said[n + m - 1] = key[m]

\* Whether what was cut out is, but for its last byte, what was sent from the beginning
\* of a header to the end of the first tail behind it.
LastByte(g) == g.at + Len(g.cut) - 1
WasSaid(g) ==
  /\ g.at >= 1 /\ LastByte(g) <= Len(said)
  /\ \A m \in 1 .. Len(g.cut) - 1 : g.cut[m] = said[g.at + m - 1]
  /\ SaidAt(g.at, Header) /\ SaidAt(LastByte(g) - 1, End)
  /\ \A n \in g.at .. LastByte(g) - 2 : ~SaidAt(n, End)

\* What recv_cmd_from_fifo cuts out was sent, from a header to the first tail behind it,
\* in the order of sending and no byte twice, however lines were spread over bursts and
\* bytes dropped.  As every line ends with a tail, no cut begins in one line and ends in
\* another; a command whose payload holds a tail is cut off there.
CommandsInOrder ==
  \/ Excused
  \/ /\ \A i \in DOMAIN got : WasSaid(got[i])
     /\ \A i, j \in DOMAIN got : i < j => LastByte(got[i]) < got[j].at

\* Once its header has been found, a command is cut out: its tail is looked for
\* again until the modem has sent it.
SeenIsCut ==
  \A n \in 0 .. MaxLines :
    (cmd_get_step = 2 /\ Len(got) = n /\ ~Excused) ~> (Len(got) > n \/ Excused)
=============================================================================
