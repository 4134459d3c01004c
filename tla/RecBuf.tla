------------------------------- MODULE RecBuf -------------------------------
(***************************************************************************)
(* The text buffers as memory: those of the HP backend (back/hp/fsm_*_hp.c)*)
(* and the two of sc.c that the text is copied to.  A buffer has an        *)
(* allocated size and a count, and it grows by doubling; what is left of   *)
(* earlier, longer text stays behind the terminator.  The machines are     *)
(* driven by their tables, one token at a time.                            *)
(***************************************************************************)
EXTENDS HpBackend

CONSTANTS
  Chars,       \* the bytes that are recorded
  Sizes,       \* initial size of every buffer
  MaxRec       \* bound: bytes recorded in one buffer

Buffers == {"ips1", "out", "ps1", "s_out", "s_ps1"}

ASSUME RecBufAssumption ==
  Chars \subseteq Byte /\ Sizes \in [Buffers -> Nat \ {0}] /\ MaxRec \in Nat

VARIABLES
  f, curst,    \* the current machine and its state
  b,           \* the buffers: allocated size, count, and the memory as far as
               \* it has been written
  s_state      \* of sc.c, as far as it matters here: "BUSY", "KEEP" between
               \* the end of data and the copying, or "READY"

vars == <<f, curst, b, s_state>>

Init ==
  /\ f = "init" /\ curst = "S_STA"
  /\ b = [n \in Buffers |-> [sz |-> Sizes[n], cnt |-> 0, mem |-> <<NUL>>]]
  /\ s_state = "BUSY"

\* memcpy of s to offset i.
WriteAt(mem, i, s) == SubSeq(mem, 1, i) \o s \o SubSeq(mem, i + Len(s) + 1, Len(mem))

\* The text up to the terminator, and what is counted as text.
String(buf)  == CStr(buf.mem)
Counted(buf) == SubSeq(buf.mem, 1, buf.cnt)

\* The smallest size that doubling sz leads to and that is n or more: n doublings
\* are always enough.
DoubledTo(sz, n) ==
  LET d[k \in 0..n] == IF k = 0 THEN sz ELSE 2 * d[k-1]
  IN  Min({d[k] : k \in 0..n} \ 0..n-1)

\* growbuf of common.c.
growbuf(buf, minsz) ==
  IF minsz < buf.sz THEN buf ELSE [buf EXCEPT !.sz = DoubledTo(@, minsz)]

\* Mutant: no room is made for the terminator.
append_NoRoom(buf, c) ==
  [sz  |-> IF buf.cnt >= buf.sz THEN buf.sz * 2 ELSE buf.sz,
   cnt |-> buf.cnt + 1,
   mem |-> WriteAt(buf.mem, buf.cnt, <<c, NUL>>)]

\* act_rec and act_recps on their buffer.
append(buf, c) ==
  [sz  |-> IF buf.cnt + 1 >= buf.sz THEN buf.sz * 2 ELSE buf.sz,
   cnt |-> buf.cnt + 1,
   mem |-> WriteAt(buf.mem, buf.cnt, <<c, NUL>>)]

clear(buf) == [buf EXCEPT !.cnt = 0, !.mem = WriteAt(@, 0, <<NUL>>)]

\* Mutant: the output stays in its buffer as well.
noout_KeepsOutput(bs) ==
  [bs EXCEPT !.ps1 = [sz  |-> DoubledTo(@.sz, bs.out.cnt + 1),
                      cnt |-> bs.out.cnt,
                      mem |-> WriteAt(@.mem, 0, Counted(bs.out) \o <<NUL>>)]]

\* act_noout: the output becomes the prompt.
noout(bs) ==
  [bs EXCEPT !.ps1 = [sz  |-> DoubledTo(@.sz, bs.out.cnt + 1),
                      cnt |-> bs.out.cnt,
                      mem |-> WriteAt(@.mem, 0, Counted(bs.out) \o <<NUL>>)],
             !.out = clear(@)]

\* What the action of a transition does to the buffers.
Do(action, c) ==
  CASE action = "act_rec"                   -> [b EXCEPT !.out = append(@, c)]
    [] action = "act_recps" /\ f = "init"   -> [b EXCEPT !.ips1 = append(@, c)]
    [] action = "act_recps" /\ f = "cmdout" -> [b EXCEPT !.ps1 = append(@, c)]
    [] action = "act_noout"                 -> noout(b)
    [] OTHER                                -> b

\* A copy of the string str in a buffer of sc.c.
copy(buf, str) ==
  LET g == growbuf(buf, Len(str) + 1)
  IN  [sz |-> g.sz, cnt |-> Len(str), mem |-> WriteAt(g.mem, 0, str \o <<NUL>>)]
-----------------------------------------------------------------------------
Token(t, c) ==
  LET tr == delta[f][curst][t]
  IN  /\ s_state = "BUSY"
      /\ tr.state # "S_ERR"
      /\ curst' = tr.state
      /\ b' = Do(tr.action, c)
      /\ \A n \in Buffers : b'[n].cnt <= MaxRec
      /\ UNCHANGED <<f, s_state>>

EndOfData ==
  LET tr == delta[f][curst]["T_EOF"]
  IN  /\ s_state = "BUSY"
      /\ isaccepting(tr.state)
      /\ curst' = tr.state
      /\ b' = Do(tr.action, NUL)
      /\ s_state' = "KEEP"
      /\ UNCHANGED f

\* The end of oper_busy.
Keep ==
  /\ s_state = "KEEP"
  /\ b' = [b EXCEPT
             !.s_out = copy(@, IF f = "cmdout" THEN String(b.out) ELSE <<>>),
             !.s_ps1 = copy(@, CASE f = "init"   -> String(b.ips1)
                                 [] f = "cmdout" -> String(b.ps1)
                                 [] OTHER        -> <<>>)]
  /\ s_state' = "READY"
  /\ UNCHANGED <<f, curst>>

\* sc_write purges the reply before the first byte of the line is written.
Purge ==
  /\ s_state = "READY"
  /\ b' = [b EXCEPT !.s_out = clear(@)]
  /\ s_state' = "WRITING"
  /\ UNCHANGED <<f, curst>>

\* oper_writing: a byte is written, and the machine for what follows is reset.
\* After an end of data with more of the line to write, nothing is kept.
reset(g) ==
  /\ s_state \in {"WRITING", "KEEP"}
  /\ f' = g /\ curst' = "S_STA"
  /\ b' = IF g = "cmdout" THEN [b EXCEPT !.out = clear(@), !.ps1 = clear(@)] ELSE b
  /\ s_state' = "BUSY"

Next == \/ \E c \in Chars : Token("T_REST", c)
        \/ Token("T_ESEQ", ESC)
        \/ EndOfData \/ Keep \/ Purge
        \/ \E g \in {"cmdout", "inchar"} : reset(g)

Spec == Init /\ [][Next]_vars
-----------------------------------------------------------------------------
\* Nothing is ever written behind the end of a buffer, the terminator included,
\* and every buffer has a terminator at or before its count when it is read.
InBounds ==
  \A n \in Buffers : /\ Len(b[n].mem) <= b[n].sz
                     /\ b[n].cnt < Len(b[n].mem) /\ b[n].mem[b[n].cnt + 1] = NUL

\* The buffers do what Sc takes them to do, text without a size: whatever is
\* left in memory of earlier text, none of it shows.
TheRecorder ==
  INSTANCE Recorder WITH
    hp <- [HpInit EXCEPT !.ips1 = Counted(b.ips1), !.out = Counted(b.out),
                         !.ps1  = Counted(b.ps1)],
    s_outbuf <- String(b.s_out),
    s_ps1buf <- String(b.s_ps1)

ImplementsRecorder == TheRecorder!RecorderSpec
=============================================================================
