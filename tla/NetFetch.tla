------------------------------ MODULE NetFetch ------------------------------
(* koti-net's `get`, a shell script that types at a MicroPython prompt, and   *)
(* the far end it types at, which echoes, executes and answers, may receive a *)
(* line with a character missing, is deaf while it executes, destroys the     *)
(* first character of everything it says after a pause, and may still be busy *)
(* with something else, or not there at all.                                  *)
(*                                                                            *)
(* The capture is a sequence of tokens and a line is its kind.  A string is   *)
(* the get it belongs to (0: damaged) and its length.                         *)
EXTENDS Naturals, Sequences, FiniteSets, SequencesExt

CONSTANTS
  Lens,      \* [get -> length of the host name, and of the path, it asks for]
  \* The worlds a behaviour may be in: the network the far end is on, whether DHCP
  \* puts its resolver back after every line, a kind of line that the link damages
  \* every time (or "none"), and the bounds, how many gets there are and how many
  \* lines and Ctrl-Cs the link damages in each.
  Worlds

\* A name has a character to lose.
ASSUME LensAssumption == Lens \in Seq(Nat \ {0})
ASSUME WorldAssumption == \A w \in Worlds : w.most \in Seq(Nat)

Program ==
  <<"octet", "if", "fix", "socket", "connect", "CN", "while", "recv", "CUT",
    "BEGIN", "write", "END">>
Marked == {"CN", "CUT", "BEGIN", "END"}
BuildLines == <<"req1", "req2">> \o Program \o <<"q", "pg">>

VARIABLES
  dev, cap,      \* the two ends of the serial line, as files
  \* the script: its place, the line of the fetch program it is at, the size of
  \* the capture at its last write, its tries, where a resync returns to
  at, st, line, b0, tries, back,
  get, res, page,     \* the current get, the last one's status and output
  \* the far end: its place, the line it executes, what it has yet to say
  far, cmd, out,
  \* its variables, and the resolver
  a, h, p, req, c1, q, b, mods, dns,
  \* the world
  net, dhcp, hard, most,
  \* observations: damages in this get, and to the program the far end has and to
  \* its count; a deadline that ran out on a far end at work, or gone; the names
  \* looked up; whether the cut of the page was said; a line typed to a deaf far end
  harm, hurt, late, dialled, warned, lost

scriptVars == <<at, st, line, b0, tries, back, get, res, page, late, warned>>
farVars == <<far, cmd, out, a, h, p, req, c1, q, b, mods, dns, dialled, lost>>
world == <<net, dhcp, hard, most>>
netVars == <<dev, cap, scriptVars, farVars, world, harm, hurt>>

Asked == [id |-> get, len |-> Lens[get]]
NoStr == [id |-> 0, len |-> 0]
Tok(t, x, y) == [t |-> t, x |-> x, y |-> y]
Mark(t) == Tok(t, 0, 0)
Ctrl == [k |-> "^C", s |-> NoStr]
Bare == [k |-> "", s |-> NoStr]
\* exec's tells whose program it runs.
LineOf(k) == [k |-> k, s |-> IF k \in {"a", "h", "p", "exec"} THEN Asked ELSE NoStr]

NetInit ==
  /\ dev = <<>> /\ cap = <<>>
  /\ at = "rest" /\ st = "send" /\ line = 1 /\ b0 = 0 /\ tries = 1 /\ back = "rest"
  /\ get = 0 /\ res = 0 /\ page = <<>>
  /\ far = "idle" /\ cmd = [k |-> "", s |-> NoStr, d |-> "none"] /\ out = <<>>
  /\ a = NoStr /\ h = NoStr /\ p = NoStr
  /\ req = [st |-> "none", of |-> <<0, 0>>, len |-> 0]
  /\ c1 = <<>> /\ q = 0 /\ b = <<>> /\ mods = FALSE
  /\ \E w \in Worlds : net = w.net /\ dhcp = w.dhcp /\ hard = w.hard /\ most = w.most
  /\ dns = IF dhcp THEN "broken" ELSE "good"
  /\ harm = 0 /\ hurt = 0 /\ late = FALSE /\ dialled = {} /\ warned = FALSE /\ lost = FALSE

----------------------------------------------------------------------------
(* The far end.                                                              *)

\* One transmission, minus its first character: a prompt is still recognised
\* and `zz` is there to be lost; a marker or a page is not what it was.
Burst(s) ==
  CASE s = <<>> -> <<>>
    [] s # <<>> /\ s[1].t = "zz" -> Tail(s)
    [] s # <<>> /\ s[1].t \in {">>", "..", "echo"} -> s
    [] OTHER -> <<Tok(IF s[1].t = "page" THEN "page" ELSE "?", s[1].x, 0)>> \o Tail(s)

\* (Mutant: no two letters to lose.)
SaysBare(s) == <<s>>
Says(s) == <<Mark("zz"), s>>
Echo == Burst(<<Mark("echo")>>)
Prompt == <<Mark(">>")>>
More == <<Mark("..")>>

Damages(k) ==
  CASE k \in {"a", "h", "p", "req1"} -> {"raise", "short"}
    [] k = "req2" -> {"raise", "short", "bracket"}
    [] k \in {"up", "va", "q", "pg"} -> {"raise", "bracket"}
    [] k = "exec" -> {"raise", "bracket", "wedge"}
    [] k = "import" -> {"raise"}
    [] k = "octet" -> {"raise", "bad"}
    [] k = "recv" -> {"raise", "bad", "plus", "quiet"}
    [] k \in Marked -> {"raise", "bad", "plus", "unmarked"}
    [] k \in {"", "user"} -> {}
    [] OTHER -> {"raise", "bad", "plus"}
HardHit(k) == IF k \in ToSet(Program) THEN "plus" ELSE "raise"

MayHarm == harm < most[get] /\ hard = "none"
Hits(k) ==
  IF k = hard THEN {HardHit(k)} ELSE {"none"} \cup (IF MayHarm THEN Damages(k) ELSE {})

\* It executes, or its program waits in recv with something still to be said.
Waits == far = "say" /\ cmd.k = "exec" /\ Len(out) > 1
Deaf == far = "busy" \/ Waits

\* Ctrl-C at a prompt of either kind, or to a command, which it ends; or it is
\* lost as any character may be.
FarInterrupt ==
  /\ far \in {"idle", "cont"} \/ Deaf
  /\ dev # <<>> /\ Head(dev) = Ctrl /\ dev' = Tail(dev)
  /\ \/ far' = "idle" /\ out' = <<>> /\ cap' = cap \o Prompt /\ UNCHANGED harm
     \/ MayHarm /\ harm' = harm + 1 /\ UNCHANGED <<far, out, cap>>
  /\ UNCHANGED <<scriptVars, cmd, a, h, p, req, c1, q, b, mods, dns, dialled, lost, world, hurt>>

\* Inside an incomplete statement everything is more of it.
FarSwallow ==
  /\ far = "cont" /\ dev # <<>> /\ Head(dev) # Ctrl
  /\ dev' = Tail(dev) /\ cap' = cap \o Echo \o More
  /\ UNCHANGED <<scriptVars, farVars, world, harm, hurt>>

\* The first line of the program starts it afresh, unless it raises.
Begun(k, d) == IF k = "octet" /\ d # "raise" THEN 0 ELSE hurt

\* A line at the prompt: damaged or not, echoed; then the lease comes back.
FarTake ==
  /\ far = "idle" /\ dev # <<>> /\ Head(dev) # Ctrl
  /\ dev' = Tail(dev)
  /\ \E d \in Hits(Head(dev).k) :
       /\ harm' = IF d = "none" THEN harm ELSE IF hard = "none" THEN harm + 1 ELSE 1
       /\ hurt' = Begun(Head(dev).k, d)
                   + IF d # "none" /\ Head(dev).k \in ToSet(Program) \cup {"q"} THEN 1 ELSE 0
       /\ IF d = "bracket"
          THEN /\ far' = "cont" /\ cap' = cap \o Echo \o More
               /\ UNCHANGED <<cmd, dns>>
          ELSE /\ far' = "busy" /\ cap' = cap \o Echo
               /\ cmd' = [k |-> Head(dev).k, s |-> Head(dev).s, d |-> d]
               /\ dns' = IF dhcp THEN "broken" ELSE dns
  /\ UNCHANGED <<scriptVars, out, a, h, p, req, c1, q, b, mods, dialled, lost, world>>

\* Deaf while it executes: a line is lost.  Not counted: link_up's own, which it
\* sends to find out, and resync's bare one.
FarBusy ==
  /\ Deaf /\ dev # <<>> /\ Head(dev) # Ctrl
  /\ dev' = Tail(dev)
  /\ lost' = (lost \/ Head(dev).k \notin {"up", ""})
  /\ UNCHANGED <<cap, scriptVars, far, cmd, out, a, h, p, req, c1, q, b, mods, dns, dialled, world, harm, hurt>>

Raised == <<<<Mark("TB")>>, Prompt>>
Quietly == <<Prompt>>
Short(s) == [id |-> 0, len |-> s.len - 1]

\* An assignment: as sent, or a character short.
Assigned == IF cmd.d = "short" THEN Short(cmd.s) ELSE cmd.s
Appended ==
  LET l == [k |-> cmd.k, d |-> cmd.d]
  IN  IF cmd.k = "octet" \/ cmd.d = "plus"
      THEN <<[l EXCEPT !.d = IF @ = "plus" THEN "none" ELSE @]>>
      ELSE IF c1 = <<>> THEN c1 ELSE Append(c1, l)
CountKoti(r) == Cardinality({i \in DOMAIN r : r[i].k \in Marked /\ r[i].d # "unmarked"})

\* The request, in two lines; the second needs the first one's text.
Requested ==
  LET cut == IF cmd.d = "short" THEN 1 ELSE 0
      of(n) == IF cmd.d = "short" THEN 0 ELSE n
  IN  IF cmd.k = "req1"
      THEN [st |-> "str", of |-> <<of(p.id), 0>>, len |-> 21 + p.len - cut]
      ELSE IF req.st # "str" THEN req
      ELSE [st |-> "bytes", of |-> <<req.of[1], of(h.id)>>, len |-> req.len + 23 + h.len - cut]
REQ_FIXED == 44

----------------------------------------------------------------------------
(* exec(c1): the lines run in order up to the first that raises; a block and *)
(* its body must both be there for any of them to run.                       *)
Parses(r) ==
  \A i \in DOMAIN r :
    /\ r[i].k \in {"if", "while"} => i < Len(r) /\ r[i + 1].k \in {"fix", "recv"}
    /\ r[i].k \in {"fix", "recv"} => i > 1 /\ r[i - 1].k \in {"if", "while"}
Before(r, k, i) == \E j \in 1 .. i - 1 : r[j].k = k

Reachable(repaired) == net \in {"ok", "long"} /\ a.id # 0 /\ (dns = "good" \/ repaired)
Raises(r, i) ==
  \/ r[i].d = "bad"
  \/ r[i].k = "socket" /\ ~mods
  \/ r[i].k = "connect" /\ ~(Before(r, "socket", i) /\ Reachable(Before(r, "fix", i)))
  \/ r[i].k = "CN" /\ ~(Before(r, "connect", i) /\ req.st = "bytes")
  \/ r[i].k \in {"CUT", "write"} /\ ~Before(r, "while", i) /\ b = <<>>
Stop(r) ==
  IF ~Parses(r) THEN 0
  ELSE LET bad == {i \in DOMAIN r : Raises(r, i)} IN Min(bad \cup {Len(r) + 1})
Ran(r, k) == Before(r, k, Stop(r))
\* It asks for the name in `a`, whatever comes of it.
LooksUp(r) ==
  \E i \in DOMAIN r : r[i].k = "connect" /\ r[i].d # "bad" /\ i <= Stop(r) /\ Before(r, "socket", i)

\* The reply is to what was asked of the host that was dialled: whole, cut at
\* 200 KB, or not read to its end.
WHOLE == 1
CUT == 2
Body(r) ==
  IF ~Ran(r, "recv") THEN b
  ELSE <<Tok("page", IF req.of = <<a.id, a.id>> THEN a.id ELSE 0,
             IF \E i \in DOMAIN r : r[i].d = "quiet" THEN 0
             ELSE IF net = "long" THEN CUT ELSE WHOLE)>>
IsCut(s) == \E i \in DOMAIN s : s[i].t = "page" /\ s[i].y = CUT

\* What it says: the connect marker, a wait for the network, and the rest.
Spoken(r) ==
  LET shown(k, s) == IF Ran(r, k) THEN s ELSE <<>>
      cn == IF \E i \in 1 .. Stop(r) : i \in DOMAIN r /\ r[i].k = "CN" /\ r[i].d # "bad"
            THEN Says(Mark("CN")) ELSE <<>>
      rest == (IF Ran(r, "CUT") /\ IsCut(Body(r)) THEN Says(Mark("CUT")) ELSE <<>>)
              \o shown("BEGIN", Says(Mark("BEGIN"))) \o shown("write", Body(r))
              \o shown("END", Says(Mark("END")))
              \o (IF Stop(r) <= Len(r) THEN <<Mark("TB")>> ELSE <<>>)
  IN  (IF Ran(r, "recv") THEN <<cn, rest>> ELSE <<cn \o rest>>) \o Quietly

\* A line that raises, as a whole, changes nothing.
Executes ==
  LET k == cmd.k
      ran == cmd.d # "raise"
      said == CASE k = "up" -> IF net = "nojoin" THEN Raised
                               ELSE <<Says(Tok("UP", IF net = "down" THEN 0 ELSE 1, 0)), Prompt>>
                [] k = "va" -> IF 0 \in {a.len, h.len} THEN Raised
                               ELSE <<Says(Tok("VA", a.len, h.len)), Prompt>>
                [] k = "pg" -> IF c1 = <<>> \/ q = 0 \/ req.len = 0 THEN Raised
                               ELSE <<Says(Tok("PG", q, req.len)), Prompt>>
                [] k = "exec" -> Spoken(c1)
                [] OTHER -> Quietly
  IN  /\ out' = IF ran THEN said ELSE Raised
      /\ a' = IF ran /\ k = "a" THEN Assigned ELSE a
      /\ h' = IF ran /\ k = "h" THEN Assigned ELSE h
      /\ p' = IF ran /\ k = "p" THEN Assigned ELSE p
      /\ req' = IF ran /\ k \in {"req1", "req2"} THEN Requested ELSE req
      /\ c1' = IF ran /\ k \in ToSet(Program) THEN Appended ELSE c1
      /\ q' = IF ran /\ k = "q" /\ c1 # <<>> THEN CountKoti(c1) ELSE q
      /\ mods' = (mods \/ (ran /\ k = "import"))
      /\ b' = IF ran /\ k = "exec" /\ Ran(c1, "recv") THEN Body(c1) ELSE b
      /\ dns' = IF ran /\ k = "exec" /\ Ran(c1, "fix") THEN "good" ELSE dns
      /\ dialled' = IF ran /\ k = "exec" /\ cmd.s.id = get /\ LooksUp(c1) THEN dialled \cup {a.id}
                    ELSE dialled

FarRun ==
  /\ far = "busy" /\ cmd.d # "wedge" /\ dev = <<>>
  /\ Executes /\ far' = "say"
  /\ UNCHANGED <<dev, cap, scriptVars, cmd, lost, world, harm, hurt>>

\* One burst, and a wait for the network; or the last one and the prompt that
\* follows at once, before a shell can start another command.
FarSay ==
  /\ far = "say"
  /\ LET last == Len(out) <= 2
     IN  /\ cap' = cap \o Burst(Head(out)) \o (IF Len(out) = 2 THEN Burst(out[2]) ELSE <<>>)
         /\ out' = IF last THEN <<>> ELSE Tail(out)
         /\ far' = IF last THEN "idle" ELSE "say"
  /\ UNCHANGED <<dev, scriptVars, cmd, a, h, p, req, c1, q, b, mods, dns, dialled, lost, world, harm, hurt>>

\* At any time it hangs for good, or loses its power: nothing is heard, not even
\* a Ctrl-C.
FarGone ==
  /\ far # "gone"
  /\ far' = "gone" /\ dev' = <<>> /\ out' = <<>>
  /\ UNCHANGED <<cap, scriptVars, cmd, a, h, p, req, c1, q, b, mods, dns, dialled, lost, world, harm, hurt>>

FarNext == FarInterrupt \/ FarSwallow \/ FarTake \/ FarBusy \/ FarRun \/ FarSay \/ FarGone
----------------------------------------------------------------------------
(* The script.  What follows names the place it goes to next.                *)
Goto(where, what) == at' = where /\ st' = what
Stay == UNCHANGED <<get, res, page, b0, back>>
Return(r) == Goto("rest", "send") /\ res' = r /\ UNCHANGED <<get, page, b0, back, line, tries, cap, dev>>
Written(l) == IF far = "gone" THEN dev ELSE Append(dev, l)

\* The far end is as the last get left it, in an open bracket, busy or gone; or
\* `koti-net py` has given up on a command that still runs; or after `koti-net
\* off`, `wake` and `join` it starts over.
AsLeft == UNCHANGED <<dev, cap, far, cmd, out, a, h, p, req, c1, q, b, mods, dns, hurt>>
UserLeft ==
  /\ far = "idle" /\ far' = "busy"
  /\ \E d \in {"none", "wedge"} : cmd' = [k |-> "user", s |-> NoStr, d |-> d]
  /\ UNCHANGED <<dev, cap, out, a, h, p, req, c1, q, b, mods, dns, hurt>>
Woken ==
  /\ far' = "idle" /\ dev' = <<>> /\ cap' = <<>> /\ out' = <<>>
  /\ a' = NoStr /\ h' = NoStr /\ p' = NoStr
  /\ req' = [st |-> "none", of |-> <<0, 0>>, len |-> 0]
  /\ c1' = <<>> /\ q' = 0 /\ b' = <<>> /\ mods' = FALSE /\ hurt' = 0
  /\ dns' = IF dhcp THEN "broken" ELSE "good"
  /\ UNCHANGED cmd
StartGet ==
  /\ at = "rest" /\ get < Len(Lens) /\ get < Len(most)
  /\ get' = get + 1 /\ Goto("up", "send") /\ tries' = 1 /\ line' = 1 /\ page' = <<>>
  /\ b0' = 0 /\ back' = "rest" /\ res' = 0
  /\ harm' = 0 /\ late' = FALSE /\ dialled' = {} /\ warned' = FALSE
  /\ AsLeft \/ UserLeft \/ Woken
  /\ UNCHANGED <<lost, world>>

Kind == IF at = "build" THEN BuildLines[line] ELSE at
Resets == Kind \in {"up", "import", "va", "q"}

SendLine ==
  /\ at \notin {"rest", "sync"} /\ st = "send"
  /\ dev' = Written(LineOf(Kind))
  /\ cap' = IF Resets THEN <<>> ELSE cap
  /\ b0' = Len(cap') /\ st' = "wait"
  /\ UNCHANGED <<at, line, tries, back, get, res, page, late, warned, farVars, world, harm, hurt>>

\* A deadline passes, or a continuation prompt is recognised, when nothing more
\* will come; and a deadline passes when a fetch, or a user's command, is slow.
Settled == dev = <<>> /\ far \in {"idle", "cont", "gone"}
Slow == dev = <<>> /\ Deaf /\ cmd.k \in {"exec", "user"}
Deadline == (Settled \/ Slow) /\ late' = (late \/ Slow \/ far = "gone")

New == SubSeq(cap, b0 + 1, Len(cap))
\* (Mutant: any output at all, not a prompt at the end of it.)
AnythingNew == New # <<>>
Prompted == New # <<>> /\ Last(New).t = ">>"
Found(t) == \E i \in DOMAIN cap : cap[i].t = t

\* Ctrl-C, 300 ms, a bare line, the prompt or ten seconds, and a clean capture;
\* then to `where`, in either case.
Resync(where) ==
  /\ Goto("sync", "send") /\ back' = where
  /\ cap' = <<>> /\ dev' = Written(Ctrl)
  /\ UNCHANGED <<get, page, b0, res>>
SyncLine ==
  /\ at = "sync" /\ st = "send"
  /\ dev' = Written(Bare) /\ st' = "wait"
  /\ UNCHANGED <<cap, at, line, tries, back, get, res, page, late, warned, b0, farVars, world, harm, hurt>>
Synced == cap # <<>> /\ Last(cap).t = ">>"
SyncReturns ==
  /\ cap' = <<>>
  /\ Goto(back, "send") /\ res' = IF back = "rest" THEN 1 ELSE res
  /\ UNCHANGED <<dev, line, tries, back, get, page, warned, b0, farVars, world, harm, hurt>>
SyncDone ==
  /\ at = "sync" /\ st = "wait" /\ Synced /\ Settled
  /\ SyncReturns /\ UNCHANGED late
\* (Mutant: no deadline.)
SyncWaits == at = "sync" /\ st = "wait" /\ ~Synced /\ UNCHANGED netVars
SyncFails ==
  /\ at = "sync" /\ st = "wait" /\ ~Synced /\ Deadline
  /\ SyncReturns

\* A build that failed: again from the request on, three times in all.
Rebuild ==
  /\ line' = 1 /\ tries' = tries + 1
  /\ Resync(IF tries >= 3 THEN "rest" ELSE "build")

\* What each caller does with send's status.
After(ok) ==
  /\ warned' = (warned \/ (at = "exec" /\ Found("CN") /\ Found("CUT")))
  /\ CASE at \in {"up", "va"} -> Goto(at, "expect") /\ Stay /\ UNCHANGED <<line, tries, cap, dev>>
       [] at = "a" -> Goto("h", "send") /\ Stay /\ UNCHANGED <<line, tries, cap, dev>>
       [] at = "h" -> Goto("va", "send") /\ Stay /\ UNCHANGED <<line, tries, cap, dev>>
       [] at \in {"import", "p"} ->
            IF ~ok THEN Resync("rest") /\ UNCHANGED <<line, tries>>
            ELSE /\ Goto(IF at = "import" THEN "a" ELSE "build", "send")
                 /\ tries' = 1 /\ Stay /\ UNCHANGED <<line, cap, dev>>
       [] at = "build" ->
            IF ~ok THEN Rebuild
            ELSE IF Kind = "pg"
            THEN Goto("build", "expect") /\ Stay /\ UNCHANGED <<line, tries, cap, dev>>
            ELSE Goto("build", "send") /\ line' = line + 1 /\ Stay /\ UNCHANGED <<tries, cap, dev>>
       [] at = "exec" ->
            IF Found("CN")
            THEN Goto("exec", "expect") /\ Stay /\ UNCHANGED <<line, tries, cap, dev>>
            ELSE Resync("rest") /\ UNCHANGED <<line, tries>>

SendOk ==
  /\ st = "wait" /\ at # "sync" /\ Prompted
  /\ After(TRUE) /\ UNCHANGED <<farVars, world, harm, hurt, late>>
SendFails ==
  /\ st = "wait" /\ at # "sync" /\ ~Prompted /\ Deadline
  /\ After(FALSE) /\ UNCHANGED <<farVars, world, harm, hurt>>

ExpectUp ==
  /\ at = "up" /\ st = "expect"
  /\ IF Found("UP")
     THEN /\ IF \E i \in DOMAIN cap : cap[i].t = "UP" /\ cap[i].x = 1
             THEN Goto("import", "send") /\ Stay /\ UNCHANGED <<line, tries, cap, dev>>
             ELSE Return(1)
          /\ UNCHANGED late
     ELSE /\ Deadline
          /\ IF tries >= 3 THEN Return(1)
             ELSE Resync("up") /\ tries' = tries + 1 /\ UNCHANGED line
  /\ UNCHANGED <<farVars, world, harm, hurt, warned>>

\* (Mutant: an answer of any lengths.)
AnyLengths == Found("VA")
\* "<address length> <host length>" anywhere in the answer: the text of a number
\* ends, or begins, with that of another.
Powers == {1, 10, 100, 1000, 10000}
Ends(n, w) == \E t \in Powers, k \in 0 .. n : w < t /\ n = w + k * t
Begins(n, w) == \E t \in Powers, k \in 0 .. n : k < t /\ n = w * t + k
LengthsMatch ==
  \E i \in DOMAIN cap :
    cap[i].t = "VA" /\ Ends(cap[i].x, Asked.len) /\ Begins(cap[i].y, Asked.len)
ExpectVa ==
  /\ at = "va" /\ st = "expect"
  /\ (Found("VA") /\ UNCHANGED late) \/ (~Found("VA") /\ Deadline)
  /\ IF LengthsMatch THEN Goto("p", "send") /\ Stay /\ UNCHANGED <<line, tries, cap, dev>>
     ELSE IF tries >= 4 THEN Return(1)
     ELSE Goto("a", "send") /\ tries' = tries + 1 /\ Stay /\ UNCHANGED <<line, cap, dev>>
  /\ UNCHANGED <<farVars, world, harm, hurt, warned>>

\* (Mutant: an answer of any counts.)
AnyProgram == Found("PG")
ProgramOk == \E i \in DOMAIN cap : cap[i] = Tok("PG", 4, REQ_FIXED + Asked.len + Asked.len)
ExpectPg ==
  /\ at = "build" /\ st = "expect"
  /\ (Found("PG") /\ UNCHANGED late) \/ (~Found("PG") /\ Deadline)
  /\ IF ProgramOk THEN Goto("exec", "send") /\ Stay /\ UNCHANGED <<line, tries, cap, dev>>
     ELSE Rebuild
  /\ UNCHANGED <<farVars, world, harm, hurt, warned>>

\* What is between the last BEGIN and END with no marker in between, without the
\* two letters in front of the END.
Pairs ==
  {e \in (DOMAIN cap) \X (DOMAIN cap) :
     /\ e[1] < e[2] /\ cap[e[1]].t = "BEGIN" /\ cap[e[2]].t = "END"
     /\ \A i \in e[1] + 1 .. e[2] - 1 : cap[i].t \notin {"BEGIN", "END"}}
Between(e) == SubSeq(cap, e[1] + 1, e[2] - IF cap[e[2] - 1].t = "zz" THEN 2 ELSE 1)
ExtractPage ==
  IF Pairs = {} THEN <<>>
  ELSE Between(CHOOSE e \in Pairs : \A f \in Pairs : f[2] <= e[2])

ExpectEnd ==
  /\ at = "exec" /\ st = "expect"
  /\ \/ /\ Found("END") /\ page' = ExtractPage /\ Goto("rest", "send") /\ res' = 0
        /\ UNCHANGED <<get, b0, back, line, tries, cap, dev, late>>
     \/ /\ ~Found("END") /\ Deadline
        /\ Resync("rest") /\ UNCHANGED <<line, tries>>
  /\ UNCHANGED <<farVars, world, harm, hurt, warned>>

ScriptNext ==
  \/ SendLine \/ SendOk \/ SendFails \/ SyncLine \/ SyncDone \/ SyncFails
  \/ ExpectUp \/ ExpectVa \/ ExpectPg \/ ExpectEnd

NetNext == StartGet \/ ScriptNext \/ FarNext
NetSpec == NetInit /\ [][NetNext]_netVars /\ WF_netVars(ScriptNext) /\ WF_netVars(FarNext)
----------------------------------------------------------------------------
\* No name the far end can still have, one that lost a character included, has a
\* length that reads as this get's at the end of a number: 14 ends as 4 does.
Apart ==
  \A n \in 1 .. get :
    /\ ~Ends(Lens[n] - 1, Lens[get])
    /\ n # get => ~Ends(Lens[n], Lens[get])

\* This get asks for longer strings than any before it.
Longest == \A n \in 1 .. get - 1 : Lens[n] < Lens[get]

\* Every name looked up is the name asked for: not one that lost a character on
\* the way, and not the one an earlier get left in the far end's variables.
DialsWhatWasAsked == Apart => dialled \subseteq {get}

\* A get that succeeds, with no more than one damage to the program and its count
\* since the far end began it, has run a program with each of the four markers
\* once; if lengths tell its strings from the ones before, it prints only what it
\* fetched itself, and all of it but for what is cut at 200 KB if the program is
\* whole: a line without a marker that was lost or changed is not noticed.
FullProgram == [i \in DOMAIN Program |-> [k |-> Program[i], d |-> "none"]]
PageIsThisFetch ==
  (at = "rest" /\ get > 0 /\ res = 0 /\ (hurt <= 1 \/ hard # "none")) =>
    /\ \A k \in Marked : Cardinality({i \in DOMAIN c1 : c1[i].k = k}) = 1
    /\ Longest =>
         /\ \A n \in DOMAIN page : page[n].t = "page" /\ page[n].x = get
         /\ c1 = FullProgram
              => page = <<Tok("page", get, IF net = "long" THEN CUT ELSE WHOLE)>>

\* A get on a working network that loses nothing and is not kept waiting prints
\* its page, whatever state the gets before it left the far end in, and says so
\* if it is only the beginning.
CleanGetSucceeds ==
  (at = "rest" /\ get > 0 /\ harm = 0 /\ ~late /\ net \in {"ok", "long"} /\ hard = "none") =>
    /\ res = 0
    /\ page = <<Tok("page", get, IF net = "long" THEN CUT ELSE WHOLE)>>
    /\ net = "long" => warned

\* Once link_up has had its answer, nothing is typed to a far end that is deaf.
NoLineLost == ~lost

\* Every get comes back, whatever the far end does or does not answer.
GetReturns == at # "rest" ~> at = "rest"
=============================================================================
