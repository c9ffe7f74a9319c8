---------------------------- MODULE EngineProofs ----------------------------
(***************************************************************************)
(* The engine delivers what it accepts, for any instruments, any number of *)
(* workers and orders and any size of the queues.                          *)
(*                                                                         *)
(* The facts about one worker's queue q and one book's log h are stated    *)
(* with their values as parameters, so that the lemmas about push and pop  *)
(* compare values and speak of no state.                                   *)
(***************************************************************************)
EXTENDS Engine, WellFoundedInduction, TLAPS

\* The router as a function
RouteMap == [instrument \in Listed |-> Route(instrument)]

\* The queue of worker w: requests that were accepted and routed to w, in the
\* order of their submission, and a poison pill only at the end.
QueueInv(q, w, acc, ask, rt) ==
    /\ q \in Seq(Commands \cup {Shutdown})
    /\ \A i \in 1 .. Len(q) :
        /\ q[i] = Shutdown => i = Len(q) /\ w \in ask
        /\ q[i] # Shutdown =>
            /\ q[i] \in acc /\ rt[q[i].instrument] = w
            /\ \A j \in 1 .. i - 1 : q[j].number < q[i].number

\* The log of a book of instrument: accepted requests in the order of their
\* submission, all submitted before the ones that still wait in the queue.
LogInv(h, instrument, q, acc) ==
    /\ h \in Seq(Commands)
    /\ \A i \in 1 .. Len(h) :
        /\ h[i] \in acc /\ h[i].instrument = instrument
        /\ \A j \in 1 .. i - 1 : h[j].number < h[i].number
        /\ \A k \in 1 .. Len(q) :
                q[k] # Shutdown /\ q[k].instrument = instrument =>
                    h[i].number < q[k].number

\* A command is in a queue or in a log.
Present(cmd, q, h) ==
    \/ \E k \in 1 .. Len(q) : q[k] = cmd
    \/ \E k \in 1 .. Len(h) : h[k] = cmd

-----------------------------------------------------------------------------
\* A set of natural numbers that is not empty has a least element.
LEMMA LeastNat ==
    ASSUME NEW S \in SUBSET Nat, S # {}
    PROVE  \E x \in S : \A y \in S : x <= y
  <1> DEFINE R == OpToRel(<, Nat)
  <1>1. IsWellFoundedOn(R, Nat)
    BY NatLessThanWellFounded
  <1> HIDE DEF R
  <1>2. PICK x \in S : \A y \in S : ~ (<<y, x>> \in R)
    BY <1>1, WFMin
  <1>3. ASSUME NEW y \in S PROVE x <= y
    <2>1. x \in Nat /\ y \in Nat
      OBVIOUS
    <2>2. ~ (y < x)
      BY <1>2, <2>1 DEF OpToRel, R
    <2> QED BY <2>1, <2>2
  <1> QED BY <1>3

(***************************************************************************)
(* Push and pop                                                            *)
(***************************************************************************)

LEMMA CommandsKinds ==
    /\ \A cmd \in Commands : cmd # Shutdown /\ cmd.type = "REQUEST"
    /\ \A cmd \in Commands : cmd.number \in 1 .. NumOrders /\ cmd.instrument \in Listed
    /\ Shutdown.type = "SHUTDOWN"
  <1>1. \A cmd \in Commands :
            cmd.number \in 1 .. NumOrders /\ cmd.instrument \in Listed /\ cmd.type = "REQUEST"
    BY DEF Commands, Command
  <1>2. Shutdown.type = "SHUTDOWN"
    BY DEF Shutdown
  <1> QED BY <1>1, <1>2

\* A request joins the queue before any poison pill was sent.
LEMMA PushRequest ==
    ASSUME NEW q, NEW w, NEW acc \in SUBSET Commands, NEW ask, NEW rt,
           QueueInv(q, w, acc, ask, rt), w \notin ask,
           NEW cmd \in Commands, rt[cmd.instrument] = w,
           \A c \in acc : c.number < cmd.number
    PROVE  QueueInv(Append(q, cmd), w, acc \cup {cmd}, ask, rt)
  <1> DEFINE r == Append(q, cmd)
  <1>1. /\ q \in Seq(Commands \cup {Shutdown}) /\ r \in Seq(Commands \cup {Shutdown})
        /\ Len(q) \in Nat /\ Len(r) = Len(q) + 1 /\ r[Len(q) + 1] = cmd
        /\ \A i \in 1 .. Len(q) : r[i] = q[i]
    BY DEF QueueInv
  <1>2. \A i \in 1 .. Len(q) : q[i] # Shutdown /\ q[i] \in acc
    BY DEF QueueInv
  <1> HIDE DEF r
  <1>3. ASSUME NEW i \in 1 .. Len(r)
        PROVE  /\ r[i] # Shutdown /\ r[i] \in acc \cup {cmd} /\ rt[r[i].instrument] = w
               /\ \A j \in 1 .. i - 1 : r[j].number < r[i].number
    <2>1. CASE i = Len(q) + 1
      BY <1>1, <1>2, <2>1, CommandsKinds
    <2>2. CASE i \in 1 .. Len(q)
      BY <1>1, <1>2, <2>2 DEF QueueInv
    <2> QED BY <1>1, <2>1, <2>2
  <1>4. QueueInv(r, w, acc \cup {cmd}, ask, rt)
    BY <1>1, <1>3 DEF QueueInv
  <1> QED BY <1>4 DEF r

LEMMA PushPill ==
    ASSUME NEW q, NEW w, NEW acc \in SUBSET Commands, NEW ask, NEW rt,
           QueueInv(q, w, acc, ask, rt), w \notin ask
    PROVE  QueueInv(Append(q, Shutdown), w, acc, ask \cup {w}, rt)
  <1> DEFINE r == Append(q, Shutdown)
  <1>1. /\ q \in Seq(Commands \cup {Shutdown}) /\ r \in Seq(Commands \cup {Shutdown})
        /\ Len(q) \in Nat /\ Len(r) = Len(q) + 1 /\ r[Len(q) + 1] = Shutdown
        /\ \A i \in 1 .. Len(q) : r[i] = q[i]
    BY DEF QueueInv
  <1>2. \A i \in 1 .. Len(q) : q[i] # Shutdown
    BY DEF QueueInv
  <1> HIDE DEF r
  <1>3. ASSUME NEW i \in 1 .. Len(r)
        PROVE  /\ r[i] = Shutdown => i = Len(r) /\ w \in ask \cup {w}
               /\ r[i] # Shutdown =>
                    /\ r[i] \in acc /\ rt[r[i].instrument] = w
                    /\ \A j \in 1 .. i - 1 : r[j].number < r[i].number
    <2>1. CASE i = Len(q) + 1
      BY <1>1, <2>1
    <2>2. CASE i \in 1 .. Len(q)
      BY <1>1, <1>2, <2>2 DEF QueueInv
    <2> QED BY <1>1, <2>1, <2>2
  <1>4. QueueInv(r, w, acc, ask \cup {w}, rt)
    BY <1>1, <1>3 DEF QueueInv
  <1> QED BY <1>4 DEF r

\* What is pushed comes after everything in the logs.
LEMMA PushLog ==
    ASSUME NEW h, NEW instrument, NEW q \in Seq(Commands \cup {Shutdown}),
           NEW acc \in SUBSET Commands, LogInv(h, instrument, q, acc),
           NEW cmd \in Commands \cup {Shutdown},
           cmd # Shutdown => \A c \in acc : c.number < cmd.number
    PROVE  \A more \in SUBSET Commands : LogInv(h, instrument, Append(q, cmd), acc \cup more)
  <1> SUFFICES ASSUME NEW more \in SUBSET Commands
               PROVE  LogInv(h, instrument, Append(q, cmd), acc \cup more)
    OBVIOUS
  <1> DEFINE r == Append(q, cmd)
  <1>1. /\ Len(q) \in Nat /\ Len(r) = Len(q) + 1 /\ r[Len(q) + 1] = cmd
        /\ \A i \in 1 .. Len(q) : r[i] = q[i]
    OBVIOUS
  <1> HIDE DEF r
  <1>2. ASSUME NEW i \in 1 .. Len(h), NEW k \in 1 .. Len(r),
               r[k] # Shutdown, r[k].instrument = instrument
        PROVE  h[i].number < r[k].number
    <2>1. CASE k = Len(q) + 1
      BY <1>1, <1>2, <2>1 DEF LogInv
    <2>2. CASE k \in 1 .. Len(q)
      BY <1>1, <1>2, <2>2 DEF LogInv
    <2> QED BY <1>1, <2>1, <2>2
  <1>3. LogInv(h, instrument, r, acc \cup more)
    BY <1>2 DEF LogInv
  <1> QED BY <1>3 DEF r

LEMMA PushPresent ==
    ASSUME NEW q \in Seq(Commands \cup {Shutdown}), NEW cmd \in Commands \cup {Shutdown},
           NEW h
    PROVE  /\ Present(cmd, Append(q, cmd), h)
           /\ \A c : Present(c, q, h) => Present(c, Append(q, cmd), h)
  <1> DEFINE r == Append(q, cmd)
  <1>1. /\ Len(q) \in Nat /\ Len(r) = Len(q) + 1 /\ r[Len(q) + 1] = cmd
        /\ \A i \in 1 .. Len(q) : r[i] = q[i]
    OBVIOUS
  <1> HIDE DEF r
  <1>2. Present(cmd, r, h) /\ \A c : Present(c, q, h) => Present(c, r, h)
    BY <1>1 DEF Present
  <1> QED BY <1>2 DEF r

\* More accepted commands, and more pills sent to others
LEMMA Weaken ==
    ASSUME NEW q, NEW w, NEW acc, NEW ask, NEW rt, NEW acc2, NEW ask2,
           acc \subseteq acc2, ask \subseteq ask2
    PROVE  /\ QueueInv(q, w, acc, ask, rt) => QueueInv(q, w, acc2, ask2, rt)
           /\ \A h, instrument : LogInv(h, instrument, q, acc) => LogInv(h, instrument, q, acc2)
  BY DEF QueueInv, LogInv

-----------------------------------------------------------------------------
LEMMA TailFacts ==
    ASSUME NEW S, NEW q \in Seq(S), q # <<>>
    PROVE  /\ Head(q) = q[1] /\ Head(q) \in S /\ 1 \in 1 .. Len(q)
           /\ Tail(q) \in Seq(S) /\ Len(q) \in Nat \ {0} /\ Len(Tail(q)) = Len(q) - 1
           /\ \A i \in 1 .. Len(q) - 1 : Tail(q)[i] = q[i + 1]
  OBVIOUS

LEMMA PopQueue ==
    ASSUME NEW q, NEW w, NEW acc, NEW ask, NEW rt,
           QueueInv(q, w, acc, ask, rt), q # <<>>
    PROVE  /\ QueueInv(Tail(q), w, acc, ask, rt)
           /\ Head(q) = Shutdown => Tail(q) = <<>> /\ w \in ask
           /\ Head(q) # Shutdown => Head(q) \in acc /\ rt[Head(q).instrument] = w
  <1> DEFINE t == Tail(q)
             S == Commands \cup {Shutdown}
  <1>1. /\ Head(q) = q[1] /\ 1 \in 1 .. Len(q)
        /\ t \in Seq(S) /\ Len(q) \in Nat \ {0} /\ Len(t) = Len(q) - 1
        /\ \A i \in 1 .. Len(t) : t[i] = q[i + 1]
    <2>1. q \in Seq(S)
      BY DEF QueueInv
    <2> HIDE DEF S
    <2> QED BY <2>1, TailFacts
  <1> HIDE DEF t
  <1>2. QueueInv(t, w, acc, ask, rt)
    <2>1. ASSUME NEW i \in 1 .. Len(t)
          PROVE  /\ t[i] = Shutdown => i = Len(t) /\ w \in ask
                 /\ t[i] # Shutdown =>
                        /\ t[i] \in acc /\ rt[t[i].instrument] = w
                        /\ \A j \in 1 .. i - 1 : t[j].number < t[i].number
      <3>1. i + 1 \in 1 .. Len(q) /\ t[i] = q[i + 1]
        BY <1>1
      <3>2. \A j \in 1 .. i - 1 : j + 1 \in 1 .. (i + 1) - 1 /\ t[j] = q[j + 1]
        BY <1>1
      <3> QED BY <1>1, <3>1, <3>2 DEF QueueInv
    <2> QED BY <1>1, <2>1 DEF QueueInv
  <1>3. Head(q) = Shutdown => t = <<>> /\ w \in ask
    <2>1. ASSUME Head(q) = Shutdown PROVE Len(q) = 1 /\ w \in ask
      BY <1>1, <2>1 DEF QueueInv
    <2> QED BY <1>1, <2>1
  <1>4. Head(q) # Shutdown => Head(q) \in acc /\ rt[Head(q).instrument] = w
    BY <1>1 DEF QueueInv
  <1> QED BY <1>2, <1>3, <1>4 DEF t

\* A pop for another book, or of the pill
LEMMA PopOtherLog ==
    ASSUME NEW h, NEW instrument, NEW q \in Seq(Commands \cup {Shutdown}), NEW acc,
           LogInv(h, instrument, q, acc), q # <<>>
    PROVE  LogInv(h, instrument, Tail(q), acc)
  <1> DEFINE t == Tail(q)
             S == Commands \cup {Shutdown}
  <1>1. /\ Len(q) \in Nat \ {0} /\ Len(t) = Len(q) - 1
        /\ \A i \in 1 .. Len(t) : t[i] = q[i + 1] /\ i + 1 \in 1 .. Len(q)
    <2>1. q \in Seq(S)
      OBVIOUS
    <2> HIDE DEF S
    <2> QED BY <2>1, TailFacts
  <1> HIDE DEF t
  <1>2. LogInv(h, instrument, t, acc)
    BY <1>1 DEF LogInv
  <1> QED BY <1>2 DEF t

\* The popped request goes to its log.
LEMMA PopLog ==
    ASSUME NEW h, NEW instrument, NEW q, NEW w, NEW acc \in SUBSET Commands, NEW ask, NEW rt,
           QueueInv(q, w, acc, ask, rt), LogInv(h, instrument, q, acc), q # <<>>,
           Head(q) # Shutdown, Head(q).instrument = instrument
    PROVE  LogInv(Append(h, Head(q)), instrument, Tail(q), acc)
  <1> DEFINE t == Tail(q)
             S == Commands \cup {Shutdown}
             cmd == Head(q)
             g == Append(h, cmd)
  <1>1. /\ cmd = q[1] /\ 1 \in 1 .. Len(q) /\ Len(q) \in Nat \ {0}
        /\ Len(t) = Len(q) - 1
        /\ \A i \in 1 .. Len(t) : t[i] = q[i + 1] /\ i + 1 \in 1 .. Len(q)
    <2>1. q \in Seq(S)
      BY DEF QueueInv
    <2> HIDE DEF S
    <2> QED BY <2>1, TailFacts
  <1>2. cmd \in acc /\ cmd \in Commands
    BY PopQueue
  <1>3. /\ Len(h) \in Nat /\ g \in Seq(Commands) /\ Len(g) = Len(h) + 1
        /\ g[Len(h) + 1] = cmd /\ \A i \in 1 .. Len(h) : g[i] = h[i]
    <2>1. h \in Seq(Commands)
      BY DEF LogInv
    <2> HIDE DEF cmd
    <2> QED BY <1>2, <2>1
  <1>4. cmd # Shutdown /\ cmd.instrument = instrument
    OBVIOUS
  <1> HIDE DEF t, g, cmd
  <1>5. \A i \in 1 .. Len(h) : h[i].number < cmd.number
    BY <1>1, <1>4 DEF LogInv
  <1>6. \A k \in 1 .. Len(t) : t[k] # Shutdown => cmd.number < t[k].number
    <2>1. ASSUME NEW k \in 1 .. Len(t), t[k] # Shutdown PROVE cmd.number < t[k].number
      <3>1. t[k] = q[k + 1] /\ k + 1 \in 1 .. Len(q) /\ 1 \in 1 .. (k + 1) - 1
        BY <1>1
      <3> QED BY <1>1, <2>1, <3>1 DEF QueueInv
    <2> QED BY <2>1
  <1>7. ASSUME NEW i \in 1 .. Len(g)
        PROVE  /\ g[i] \in acc /\ g[i].instrument = instrument
               /\ \A j \in 1 .. i - 1 : g[j].number < g[i].number
               /\ \A k \in 1 .. Len(t) :
                    t[k] # Shutdown /\ t[k].instrument = instrument =>
                        g[i].number < t[k].number
    <2>1. CASE i = Len(h) + 1
      <3>1. g[i] = cmd /\ \A j \in 1 .. i - 1 : g[j] = h[j] /\ j \in 1 .. Len(h)
        BY <1>3, <2>1
      <3> QED BY <1>2, <1>4, <1>5, <1>6, <3>1
    <2>2. CASE i \in 1 .. Len(h)
      <3>1. g[i] = h[i] /\ \A j \in 1 .. i - 1 : g[j] = h[j]
        BY <1>3, <2>2
      <3>2. \A k \in 1 .. Len(t) : t[k] = q[k + 1] /\ k + 1 \in 1 .. Len(q)
        BY <1>1
      <3> QED BY <2>2, <3>1, <3>2 DEF LogInv
    <2> QED BY <1>3, <2>1, <2>2
  <1>8. LogInv(g, instrument, t, acc)
    BY <1>3, <1>7 DEF LogInv
  <1> QED BY <1>8 DEF g, t, cmd

LEMMA PopPresent ==
    ASSUME NEW q \in Seq(Commands \cup {Shutdown}), q # <<>>, NEW h \in Seq(Commands)
    PROVE  /\ \A c : c # Head(q) /\ Present(c, q, h) => Present(c, Tail(q), h)
           /\ Head(q) \in Commands =>
                \A c : Present(c, q, h) => Present(c, Tail(q), Append(h, Head(q)))
  <1> DEFINE t == Tail(q)
             S == Commands \cup {Shutdown}
             cmd == Head(q)
             g == Append(h, cmd)
  <1>1. /\ cmd = q[1] /\ Len(q) \in Nat \ {0} /\ Len(t) = Len(q) - 1
        /\ \A i \in 1 .. Len(t) : t[i] = q[i + 1]
    <2>1. q \in Seq(S)
      OBVIOUS
    <2> HIDE DEF S
    <2> QED BY <2>1, TailFacts
  <1>2. cmd \in Commands =>
            /\ Len(h) \in Nat /\ Len(g) = Len(h) + 1
            /\ g[Len(h) + 1] = cmd /\ \A i \in 1 .. Len(h) : g[i] = h[i]
    <2> HIDE DEF cmd
    <2> QED OBVIOUS
  <1> HIDE DEF t, g, cmd
  <1>3. ASSUME NEW c, NEW k \in 1 .. Len(q), q[k] = c, c # cmd
        PROVE  \E i \in 1 .. Len(t) : t[i] = c
    <2>1. k # 1
      BY <1>1, <1>3
    <2>2. k - 1 \in 1 .. Len(t) /\ t[k - 1] = q[(k - 1) + 1] /\ (k - 1) + 1 = k
      BY <1>1, <2>1
    <2> QED BY <1>3, <2>2
  <1>4. \A c : c # cmd /\ Present(c, q, h) => Present(c, t, h)
    BY <1>3 DEF Present
  <1>5. ASSUME cmd \in Commands, NEW c, Present(c, q, h) PROVE Present(c, t, g)
    <2>1. CASE c = cmd
      BY <1>2, <1>5, <2>1 DEF Present
    <2>2. CASE c # cmd
      BY <1>2, <1>4, <1>5, <2>2 DEF Present
    <2> QED BY <2>1, <2>2
  <1> QED BY <1>4, <1>5 DEF t, g, cmd

-----------------------------------------------------------------------------
(***************************************************************************)
(* All queues and books.  W are the workers, B[w] the instruments of w's   *)
(* books, rt the router; q, h, acc, ask and sub are queue, handed,         *)
(* accepted, asked and submitted.                                          *)
(***************************************************************************)

Routing(W, B, rt) ==
    /\ rt \in [Listed -> W]
    /\ \A instrument \in Listed : instrument \in B[rt[instrument]]
    /\ \A w \in W : B[w] \subseteq Listed

Shapes(W, B, q, h, acc, sub) ==
    /\ q \in [W -> Seq(Commands \cup {Shutdown})]
    /\ DOMAIN h = W /\ \A w \in W : h[w] \in [B[w] -> Seq(Commands)]
    /\ acc \subseteq Commands
    /\ sub \in Nat

Queues(W, rt, q, acc, ask) == \A w \in W : QueueInv(q[w], w, acc, ask, rt)

Logs(W, B, rt, q, h, acc) ==
    \A w \in W : \A instrument \in B[w] :
        /\ LogInv(h[w][instrument], instrument, q[w], acc)
        /\ rt[instrument] # w => h[w][instrument] = <<>>

Kept(rt, q, h, acc, sub) ==
    \A cmd \in acc :
        /\ cmd.number <= sub
        /\ Present(cmd, q[rt[cmd.instrument]], h[rt[cmd.instrument]][cmd.instrument])

Delivery(W, B, rt, q, h, acc, ask, sub) ==
    /\ Shapes(W, B, q, h, acc, sub)
    /\ Queues(W, rt, q, acc, ask)
    /\ Logs(W, B, rt, q, h, acc)
    /\ Kept(rt, q, h, acc, sub)

\* Producer::submit of an accepted command
LEMMA SubmitDelivery ==
    ASSUME NEW W, NEW B, NEW rt, NEW q, NEW h, NEW acc, NEW ask, NEW sub,
           Routing(W, B, rt), Delivery(W, B, rt, q, h, acc, ask, sub),
           NEW cmd \in Commands, cmd.number = sub + 1,
           rt[cmd.instrument] \notin ask
    PROVE  Delivery(W, B, rt,
                    [q EXCEPT ![rt[cmd.instrument]] = Append(@, cmd)],
                    h, acc \cup {cmd}, ask, sub + 1)
  <1> DEFINE w == rt[cmd.instrument]
             q2 == [q EXCEPT ![w] = Append(@, cmd)]
             acc2 == acc \cup {cmd}
  <1>1. w \in W /\ w \notin ask
    BY CommandsKinds DEF Routing
  <1>2. Shapes(W, B, q, h, acc, sub)
    BY DEF Delivery
  <1>3. /\ q[w] \in Seq(Commands \cup {Shutdown}) /\ q2[w] = Append(q[w], cmd)
        /\ q2 \in [W -> Seq(Commands \cup {Shutdown})]
        /\ \A v \in W : v # w => q2[v] = q[v]
    BY <1>1, <1>2 DEF Shapes
  <1>4. \A c \in acc : c.number < cmd.number /\ c \in Commands
    <2>1. \A c \in acc : c.number <= sub /\ c \in Commands
      BY DEF Delivery, Kept, Shapes
    <2> QED BY <2>1, <1>2, CommandsKinds DEF Shapes
  <1>5. acc \in SUBSET Commands /\ acc \subseteq acc2 /\ acc2 \subseteq Commands
    BY <1>2 DEF Shapes
  <1>6. rt[cmd.instrument] = w
    OBVIOUS
  <1> HIDE DEF w, q2
  <1>7. ASSUME NEW v \in W PROVE QueueInv(q2[v], v, acc2, ask, rt)
    <2>1. QueueInv(q[v], v, acc, ask, rt)
      BY DEF Delivery, Queues
    <2>2. CASE v = w
      <3>1. QueueInv(q[w], w, acc, ask, rt)
        BY <2>1, <2>2
      <3>2. QueueInv(Append(q[w], cmd), w, acc2, ask, rt)
        BY <1>1, <1>4, <1>5, <1>6, <3>1, PushRequest
      <3> QED BY <1>3, <2>2, <3>2
    <2>3. CASE v # w
      <3> HIDE DEF acc2
      <3> QED BY <1>3, <1>5, <2>1, <2>3, Weaken
    <2> QED BY <2>2, <2>3
  <1>8. ASSUME NEW v \in W, NEW instrument \in B[v]
        PROVE  /\ LogInv(h[v][instrument], instrument, q2[v], acc2)
               /\ rt[instrument] # v => h[v][instrument] = <<>>
    <2>1. /\ LogInv(h[v][instrument], instrument, q[v], acc)
          /\ rt[instrument] # v => h[v][instrument] = <<>>
      BY DEF Delivery, Logs
    <2>2. CASE v = w
      <3>1. {cmd} \in SUBSET Commands
        OBVIOUS
      <3>2. LogInv(h[w][instrument], instrument, Append(q[w], cmd), acc2)
        BY <1>3, <1>4, <1>5, <2>1, <2>2, <3>1, PushLog
      <3> QED BY <1>3, <2>1, <2>2, <3>2
    <2>3. CASE v # w
      <3> HIDE DEF acc2
      <3> QED BY <1>3, <1>5, <2>1, <2>3, Weaken
    <2> QED BY <2>2, <2>3
  <1>9. ASSUME NEW c \in acc2
        PROVE  /\ c.number <= sub + 1
               /\ Present(c, q2[rt[c.instrument]], h[rt[c.instrument]][c.instrument])
    <2> DEFINE v == rt[c.instrument]
               hc == h[v][c.instrument]
    <2>0. c \in Commands /\ v \in W
      BY <1>5, CommandsKinds DEF Routing
    <2>1. CASE c = cmd
      <3>1. v = w
        BY <1>6, <2>1
      <3> HIDE DEF hc, v
      <3>2. Present(cmd, q2[w], hc)
        BY <1>3, PushPresent
      <3>3. c.number <= sub + 1
        BY <2>1, <1>2 DEF Shapes
      <3> QED BY <2>1, <3>1, <3>2, <3>3 DEF hc, v
    <2>2. CASE c # cmd
      <3>1. c \in acc
        BY <2>2
      <3>2. c.number <= sub /\ Present(c, q[v], hc)
        BY <3>1 DEF Delivery, Kept
      <3>3. c.number <= sub + 1
        BY <3>2, <2>0, <1>2, CommandsKinds DEF Shapes
      <3> HIDE DEF hc, v
      <3>4. Present(c, q2[v], hc)
        <4>1. CASE v = w
          BY <1>3, <3>2, <4>1, PushPresent
        <4>2. CASE v # w
          BY <1>3, <2>0, <3>2, <4>2
        <4> QED BY <4>1, <4>2
      <3> QED BY <3>3, <3>4 DEF hc, v
    <2> QED BY <2>1, <2>2
  <1>10. Shapes(W, B, q2, h, acc2, sub + 1)
    BY <1>2, <1>3, <1>5 DEF Shapes
  <1>11. Queues(W, rt, q2, acc2, ask)
    BY <1>7 DEF Queues
  <1>12. Logs(W, B, rt, q2, h, acc2)
    BY <1>8 DEF Logs
  <1>13. Kept(rt, q2, h, acc2, sub + 1)
    BY <1>9 DEF Kept
  <1> QED BY <1>10, <1>11, <1>12, <1>13 DEF Delivery, q2, w

\* submit of a command that is not accepted
LEMMA RefusedDelivery ==
    ASSUME NEW W, NEW B, NEW rt, NEW q, NEW h, NEW acc, NEW ask, NEW sub,
           Delivery(W, B, rt, q, h, acc, ask, sub)
    PROVE  Delivery(W, B, rt, q, h, acc, ask, sub + 1)
  <1>1. sub \in Nat /\ acc \subseteq Commands
    BY DEF Delivery, Shapes
  <1>2. \A c \in acc : c.number \in Nat
    BY <1>1, CommandsKinds, NumOrdersAssumption
  <1>3. Kept(rt, q, h, acc, sub + 1)
    BY <1>1, <1>2 DEF Delivery, Kept
  <1> QED BY <1>1, <1>3 DEF Delivery, Shapes

\* A poison pill for worker w
LEMMA PillDelivery ==
    ASSUME NEW W, NEW B, NEW rt, NEW q, NEW h, NEW acc, NEW ask, NEW sub,
           Routing(W, B, rt), Delivery(W, B, rt, q, h, acc, ask, sub),
           NEW w \in W, w \notin ask
    PROVE  Delivery(W, B, rt, [q EXCEPT ![w] = Append(@, Shutdown)], h, acc,
                    ask \cup {w}, sub)
  <1> DEFINE q2 == [q EXCEPT ![w] = Append(@, Shutdown)]
             ask2 == ask \cup {w}
  <1>1. Shapes(W, B, q, h, acc, sub)
    BY DEF Delivery
  <1>2. /\ q[w] \in Seq(Commands \cup {Shutdown}) /\ q2[w] = Append(q[w], Shutdown)
        /\ q2 \in [W -> Seq(Commands \cup {Shutdown})]
        /\ \A v \in W : v # w => q2[v] = q[v]
    BY <1>1 DEF Shapes
  <1>3. acc \in SUBSET Commands /\ acc \subseteq acc /\ ask \subseteq ask2
    BY <1>1 DEF Shapes
  <1> HIDE DEF q2
  <1>4. ASSUME NEW v \in W PROVE QueueInv(q2[v], v, acc, ask2, rt)
    <2>1. QueueInv(q[v], v, acc, ask, rt)
      BY DEF Delivery, Queues
    <2>2. CASE v = w
      <3>1. QueueInv(q[w], w, acc, ask, rt)
        BY <2>1, <2>2
      <3>2. QueueInv(Append(q[w], Shutdown), w, acc, ask2, rt)
        BY <1>3, <3>1, PushPill
      <3> QED BY <1>2, <2>2, <3>2
    <2>3. CASE v # w
      <3> HIDE DEF ask2
      <3> QED BY <1>2, <1>3, <2>1, <2>3, Weaken
    <2> QED BY <2>2, <2>3
  <1>5. ASSUME NEW v \in W, NEW instrument \in B[v]
        PROVE  /\ LogInv(h[v][instrument], instrument, q2[v], acc)
               /\ rt[instrument] # v => h[v][instrument] = <<>>
    <2>1. /\ LogInv(h[v][instrument], instrument, q[v], acc)
          /\ rt[instrument] # v => h[v][instrument] = <<>>
      BY DEF Delivery, Logs
    <2>2. CASE v = w
      <3>1. {} \in SUBSET Commands /\ Shutdown \in Commands \cup {Shutdown}
        OBVIOUS
      <3>2. LogInv(h[w][instrument], instrument, Append(q[w], Shutdown), acc \cup {})
        BY <1>2, <1>3, <2>1, <2>2, <3>1, PushLog
      <3>3. acc \cup {} = acc
        OBVIOUS
      <3> QED BY <1>2, <2>1, <2>2, <3>2, <3>3
    <2>3. CASE v # w
      BY <1>2, <2>1, <2>3
    <2> QED BY <2>2, <2>3
  <1>6. ASSUME NEW c \in acc
        PROVE  /\ c.number <= sub
               /\ Present(c, q2[rt[c.instrument]], h[rt[c.instrument]][c.instrument])
    <2> DEFINE v == rt[c.instrument]
               hc == h[v][c.instrument]
    <2>0. v \in W
      BY <1>3, CommandsKinds DEF Routing
    <2>1. c.number <= sub /\ Present(c, q[v], hc)
      BY DEF Delivery, Kept
    <2> HIDE DEF hc, v
    <2>2. Present(c, q2[v], hc)
      <3>1. CASE v = w
        BY <1>2, <2>1, <3>1, PushPresent
      <3>2. CASE v # w
        BY <1>2, <2>0, <2>1, <3>2
      <3> QED BY <3>1, <3>2
    <2> QED BY <2>1, <2>2 DEF hc, v
  <1>7. Shapes(W, B, q2, h, acc, sub)
    BY <1>1, <1>2 DEF Shapes
  <1>8. Queues(W, rt, q2, acc, ask2)
    BY <1>4 DEF Queues
  <1>9. Logs(W, B, rt, q2, h, acc)
    BY <1>5 DEF Logs
  <1>10. Kept(rt, q2, h, acc, sub)
    BY <1>6 DEF Kept
  <1> QED BY <1>7, <1>8, <1>9, <1>10 DEF Delivery, q2

\* Worker w pops a request and hands it to its book.
LEMMA ProcessDelivery ==
    ASSUME NEW W, NEW B, NEW rt, NEW q, NEW h, NEW acc, NEW ask, NEW sub,
           Routing(W, B, rt), Delivery(W, B, rt, q, h, acc, ask, sub),
           NEW w \in W, q[w] # <<>>, Head(q[w]) # Shutdown
    PROVE  /\ Head(q[w]).instrument \in B[w]
           /\ Delivery(W, B, rt, [q EXCEPT ![w] = Tail(@)],
                       [h EXCEPT ![w][Head(q[w]).instrument] = Append(@, Head(q[w]))],
                       acc, ask, sub)
  <1> DEFINE cmd == Head(q[w])
             book == cmd.instrument
             q2 == [q EXCEPT ![w] = Tail(@)]
             h2 == [h EXCEPT ![w][book] = Append(@, cmd)]
  <1>1. Shapes(W, B, q, h, acc, sub)
    BY DEF Delivery
  <1>2. q[w] \in Seq(Commands \cup {Shutdown}) /\ acc \in SUBSET Commands
    BY <1>1 DEF Shapes
  <1>3. QueueInv(q[w], w, acc, ask, rt)
    BY DEF Delivery, Queues
  <1>4. /\ cmd \in acc /\ rt[book] = w
        /\ QueueInv(Tail(q[w]), w, acc, ask, rt)
    BY <1>3, PopQueue
  <1>5. cmd \in Commands /\ book \in Listed /\ book \in B[w] /\ cmd # Shutdown
    BY <1>2, <1>4, CommandsKinds DEF Routing
  <1>6. Tail(q[w]) \in Seq(Commands \cup {Shutdown})
    BY <1>4 DEF QueueInv
  <1> HIDE DEF cmd
  <1>7. /\ q2 \in [W -> Seq(Commands \cup {Shutdown})] /\ q2[w] = Tail(q[w])
        /\ \A v \in W : v # w => q2[v] = q[v]
    BY <1>1, <1>6 DEF Shapes
  <1>8. /\ DOMAIN h2 = W /\ h[w][book] \in Seq(Commands)
        /\ h2[w][book] = Append(h[w][book], cmd)
        /\ h2[w][book] \in Seq(Commands)
        /\ \A i \in B[w] : i # book => h2[w][i] = h[w][i]
        /\ \A v \in W : v # w => h2[v] = h[v]
        /\ h2[w] \in [B[w] -> Seq(Commands)]
    <2>1. /\ DOMAIN h = W /\ h[w] \in [B[w] -> Seq(Commands)]
      BY <1>1 DEF Shapes
    <2>2. h[w][book] \in Seq(Commands) /\ Append(h[w][book], cmd) \in Seq(Commands)
      BY <1>5, <2>1
    <2>3. h2[w] = [h[w] EXCEPT ![book] = Append(@, cmd)]
      BY <2>1
    <2> QED BY <1>5, <2>1, <2>2, <2>3
  <1>9. Shapes(W, B, q2, h2, acc, sub)
    <2>1. \A v \in W : h2[v] \in [B[v] -> Seq(Commands)]
      BY <1>1, <1>8 DEF Shapes
    <2> HIDE DEF q2, h2
    <2> QED BY <1>1, <1>7, <1>8, <2>1 DEF Shapes
  <1> HIDE DEF q2, h2
  <1>10. Queues(W, rt, q2, acc, ask)
    <2>1. \A v \in W : QueueInv(q[v], v, acc, ask, rt)
      BY DEF Delivery, Queues
    <2>2. ASSUME NEW v \in W PROVE QueueInv(q2[v], v, acc, ask, rt)
      <3>1. CASE v = w BY <1>4, <1>7, <3>1
      <3>2. CASE v # w BY <1>7, <2>1, <3>2
      <3> QED BY <3>1, <3>2
    <2> QED BY <2>2 DEF Queues
  <1>11. Logs(W, B, rt, q2, h2, acc)
    <2>1. ASSUME NEW v \in W, NEW instrument \in B[v]
          PROVE  /\ LogInv(h2[v][instrument], instrument, q2[v], acc)
                 /\ rt[instrument] # v => h2[v][instrument] = <<>>
      <3>1. /\ LogInv(h[v][instrument], instrument, q[v], acc)
            /\ rt[instrument] # v => h[v][instrument] = <<>>
        BY DEF Delivery, Logs
      <3>2. CASE v # w
        BY <1>7, <1>8, <3>1, <3>2
      <3>3. CASE v = w /\ instrument # book
        <4>1. LogInv(h[w][instrument], instrument, Tail(q[w]), acc)
          BY <1>2, <3>1, <3>3, PopOtherLog
        <4>2. h2[w][instrument] = h[w][instrument]
          BY <1>8, <3>3
        <4> QED BY <1>7, <3>1, <3>3, <4>1, <4>2
      <3>4. CASE v = w /\ instrument = book
        <4>1. LogInv(h[w][book], book, q[w], acc)
          BY <3>1, <3>4
        <4>2. LogInv(Append(h[w][book], cmd), book, Tail(q[w]), acc)
          BY <1>2, <1>3, <4>1, PopLog DEF cmd
        <4> QED BY <1>4, <1>7, <1>8, <3>4, <4>2
      <3> QED BY <3>2, <3>3, <3>4
    <2> QED BY <2>1 DEF Logs
  <1>12. Kept(rt, q2, h2, acc, sub)
    <2>1. ASSUME NEW c \in acc
          PROVE  /\ c.number <= sub
                 /\ Present(c, q2[rt[c.instrument]], h2[rt[c.instrument]][c.instrument])
      <3> DEFINE v == rt[c.instrument]
                 i == c.instrument
      <3>1. v \in W /\ i \in B[v]
        BY <1>2, CommandsKinds DEF Routing
      <3>2. c.number <= sub /\ Present(c, q[v], h[v][i])
        BY DEF Delivery, Kept
      <3>3. c # cmd \/ (v = w /\ i = book)
        BY <1>4
      <3> HIDE DEF v, i
      <3>4. CASE v # w
        <4>1. q2[v] = q[v] /\ h2[v] = h[v]
          BY <1>7, <1>8, <3>1, <3>4
        <4> QED BY <3>2, <4>1 DEF v, i
      <3>5. CASE v = w /\ i # book
        <4>1. h[w][i] \in Seq(Commands)
          BY <1>1, <3>1, <3>5 DEF Shapes
        <4>2. c # cmd /\ Present(c, q[w], h[w][i])
          BY <3>2, <3>3, <3>5
        <4>3. Present(c, Tail(q[w]), h[w][i])
          BY <1>2, <4>1, <4>2, PopPresent DEF cmd
        <4>4. h2[w][i] = h[w][i]
          BY <1>8, <3>1, <3>5
        <4> QED BY <1>7, <3>2, <3>5, <4>3, <4>4 DEF v, i
      <3>6. CASE v = w /\ i = book
        <4>1. Present(c, q[w], h[w][book])
          BY <3>2, <3>6
        <4>2. Present(c, Tail(q[w]), Append(h[w][book], cmd))
          BY <1>2, <1>5, <1>8, <4>1, PopPresent DEF cmd
        <4>3. Present(c, q2[v], h2[v][i])
          BY <1>7, <1>8, <3>6, <4>2
        <4> QED BY <3>2, <4>3 DEF v, i
      <3> QED BY <3>4, <3>5, <3>6
    <2> QED BY <2>1 DEF Kept
  <1>13. Delivery(W, B, rt, q2, h2, acc, ask, sub)
    BY <1>9, <1>10, <1>11, <1>12 DEF Delivery
  <1> QED BY <1>5, <1>13 DEF q2, h2, cmd

\* Worker w pops its poison pill.
LEMMA StopDelivery ==
    ASSUME NEW W, NEW B, NEW rt, NEW q, NEW h, NEW acc, NEW ask, NEW sub,
           Routing(W, B, rt), Delivery(W, B, rt, q, h, acc, ask, sub),
           NEW w \in W, q[w] # <<>>, Head(q[w]) = Shutdown
    PROVE  /\ Tail(q[w]) = <<>> /\ w \in ask
           /\ Delivery(W, B, rt, [q EXCEPT ![w] = Tail(@)], h, acc, ask, sub)
  <1> DEFINE q2 == [q EXCEPT ![w] = Tail(@)]
  <1>1. Shapes(W, B, q, h, acc, sub)
    BY DEF Delivery
  <1>2. q[w] \in Seq(Commands \cup {Shutdown}) /\ acc \in SUBSET Commands
    BY <1>1 DEF Shapes
  <1>3. QueueInv(q[w], w, acc, ask, rt)
    BY DEF Delivery, Queues
  <1>4. Tail(q[w]) = <<>> /\ w \in ask /\ QueueInv(Tail(q[w]), w, acc, ask, rt)
    BY <1>3, PopQueue
  <1>5. Tail(q[w]) \in Seq(Commands \cup {Shutdown})
    BY <1>4 DEF QueueInv
  <1>6. /\ q2 \in [W -> Seq(Commands \cup {Shutdown})] /\ q2[w] = Tail(q[w])
        /\ \A v \in W : v # w => q2[v] = q[v]
    BY <1>1, <1>5 DEF Shapes
  <1> HIDE DEF q2
  <1>7. Shapes(W, B, q2, h, acc, sub)
    BY <1>1, <1>6 DEF Shapes
  <1>8. Queues(W, rt, q2, acc, ask)
    <2>1. \A v \in W : QueueInv(q[v], v, acc, ask, rt)
      BY DEF Delivery, Queues
    <2>2. ASSUME NEW v \in W PROVE QueueInv(q2[v], v, acc, ask, rt)
      <3>1. CASE v = w BY <1>4, <1>6, <3>1
      <3>2. CASE v # w BY <1>6, <2>1, <3>2
      <3> QED BY <3>1, <3>2
    <2> QED BY <2>2 DEF Queues
  <1>9. Logs(W, B, rt, q2, h, acc)
    <2>1. ASSUME NEW v \in W, NEW instrument \in B[v]
          PROVE  /\ LogInv(h[v][instrument], instrument, q2[v], acc)
                 /\ rt[instrument] # v => h[v][instrument] = <<>>
      <3>1. /\ LogInv(h[v][instrument], instrument, q[v], acc)
            /\ rt[instrument] # v => h[v][instrument] = <<>>
        BY DEF Delivery, Logs
      <3>2. CASE v # w
        BY <1>6, <3>1, <3>2
      <3>3. CASE v = w
        <4>1. LogInv(h[w][instrument], instrument, Tail(q[w]), acc)
          BY <1>2, <3>1, <3>3, PopOtherLog
        <4> QED BY <1>6, <3>1, <3>3, <4>1
      <3> QED BY <3>2, <3>3
    <2> QED BY <2>1 DEF Logs
  <1>10. Kept(rt, q2, h, acc, sub)
    <2>1. ASSUME NEW c \in acc
          PROVE  /\ c.number <= sub
                 /\ Present(c, q2[rt[c.instrument]], h[rt[c.instrument]][c.instrument])
      <3> DEFINE v == rt[c.instrument]
                 i == c.instrument
      <3>1. v \in W /\ i \in B[v] /\ c # Head(q[w])
        BY <1>2, CommandsKinds DEF Routing
      <3>2. c.number <= sub /\ Present(c, q[v], h[v][i])
        BY DEF Delivery, Kept
      <3> HIDE DEF v, i
      <3>3. CASE v # w
        BY <1>6, <3>1, <3>2, <3>3 DEF v, i
      <3>4. CASE v = w
        <4>1. h[w][i] \in Seq(Commands)
          BY <1>1, <3>1, <3>4 DEF Shapes
        <4>2. Present(c, q[w], h[w][i])
          BY <3>2, <3>4
        <4>3. Present(c, Tail(q[w]), h[w][i])
          BY <1>2, <3>1, <4>1, <4>2, PopPresent
        <4> QED BY <1>6, <3>2, <3>4, <4>3 DEF v, i
      <3> QED BY <3>3, <3>4
    <2> QED BY <2>1 DEF Kept
  <1>11. Delivery(W, B, rt, q2, h, acc, ask, sub)
    BY <1>7, <1>8, <1>9, <1>10 DEF Delivery
  <1> QED BY <1>4, <1>11 DEF q2

-----------------------------------------------------------------------------
(***************************************************************************)
(* The inductive invariant                                                 *)
(***************************************************************************)

Books == [w \in Workers |-> BooksOf(w)]

Delivered ==
    Delivery(Workers, Books, RouteMap, queue, handed, accepted, asked, submitted)

\* What is in a queue and what the producer believes to be in it
Bounded(W, q, un, limit) == \A w \in W : Len(q[w]) + un[w] <= limit

\* The parts of TypeOK that Delivered leaves open
Control ==
    /\ config \in Configs
    /\ main \in {"submit", "start", "shutdown", "join", "exit"}
    /\ submitted \in 0 .. NumOrders /\ refused \in 0 .. NumOrders
    /\ refused <= submitted
    /\ asked \subseteq Workers /\ stopped \subseteq Workers
    /\ scan \in Workers /\ started \in 0 .. NumWorkers
    /\ unseen \in [Workers -> Nat]
    /\ Bounded(Workers, queue, unseen, QueueCap - 1)

\* How far main is, and what has not happened yet
Phases ==
    /\ asked # {} => main \in {"shutdown", "join", "exit"}
    /\ main = "submit" => submitted < NumOrders
    /\ main = "submit" /\ Program = "threads" => started = 0
    /\ main = "start" => started < NumWorkers
    /\ main = "start" /\ Program = "live" => submitted = 0
    /\ main = "exit" => stopped = Workers

\* A worker that has stopped got its poison pill and left nothing.
Stopped == \A w \in stopped : queue[w] = <<>> /\ w \in asked

\* Before the shutdown a queue has no more in it than was submitted.
Fits ==
    /\ main \in {"submit", "start"} => Bounded(Workers, queue, unseen, submitted)
    /\ NumOrders < QueueCap => refused = 0

EngineInv == Control /\ Delivered /\ Phases /\ Stopped /\ Fits

-----------------------------------------------------------------------------
\* The worker of each instrument exists and has a book for it.
LEMMA RoutingHolds ==
    ASSUME config \in Configs
    PROVE  /\ NumWorkers \in Nat \ {0} /\ QueueCap \in Nat \ {0}
           /\ Workers = 0 .. NumWorkers - 1
           /\ Routing(Workers, Books, RouteMap)
  <1>1. NumWorkers \in Nat \ {0} /\ QueueCap \in Nat \ {0}
    BY ConfigsAssumption DEF NumWorkers, QueueCap
  <1>2. \A i \in DOMAIN Instruments : WorkerOf(i) \in Workers
    BY <1>1, InstrumentsAssumption DEF WorkerOf, Workers
  <1>3. ASSUME NEW instrument \in Listed
        PROVE  \E i \in DOMAIN Instruments :
                    Instruments[i] = instrument /\ Route(instrument) = WorkerOf(i)
    <2> DEFINE S == {i \in DOMAIN Instruments : Instruments[i] = instrument}
    <2>1. S \in SUBSET Nat /\ S # {}
      BY InstrumentsAssumption DEF Listed
    <2>2. PICK i \in S : \A j \in S : i <= j
      BY <2>1, LeastNat
    <2>3. i \in DOMAIN Instruments /\ Instruments[i] = instrument
      OBVIOUS
    <2>4. \A j \in 1 .. i - 1 : Instruments[j] # instrument
      <3>1. ASSUME NEW j \in 1 .. i - 1, Instruments[j] = instrument PROVE FALSE
        <4>1. i \in Nat /\ j \in Nat /\ j < i /\ j \in DOMAIN Instruments
          BY <2>3, InstrumentsAssumption
        <4>2. j \in S
          BY <3>1, <4>1
        <4> QED BY <2>2, <4>1, <4>2
      <3> QED BY <3>1
    <2> QED BY <2>3, <2>4 DEF Route
  <1>4. RouteMap \in [Listed -> Workers]
    BY <1>2, <1>3 DEF RouteMap
  <1>5. \A instrument \in Listed : instrument \in Books[RouteMap[instrument]]
    <2>1. ASSUME NEW instrument \in Listed PROVE instrument \in Books[RouteMap[instrument]]
      <3>1. PICK i \in DOMAIN Instruments :
                Instruments[i] = instrument /\ Route(instrument) = WorkerOf(i)
        BY <1>3
      <3>2. RouteMap[instrument] = WorkerOf(i) /\ WorkerOf(i) \in Workers
        BY <1>2, <3>1 DEF RouteMap
      <3>3. instrument \in BooksOf(WorkerOf(i))
        BY <3>1 DEF BooksOf
      <3> QED BY <3>2, <3>3 DEF Books
    <2> QED BY <2>1
  <1>6. \A w \in Workers : Books[w] \subseteq Listed
    BY DEF Books, BooksOf, Listed
  <1> QED BY <1>1, <1>4, <1>5, <1>6 DEF Routing, Workers

\* The configuration never changes, and nothing that is computed from it does.
LEMMA ConfigKept ==
    ASSUME config' = config
    PROVE  /\ Program' = Program /\ NumWorkers' = NumWorkers /\ QueueCap' = QueueCap
           /\ Workers' = Workers /\ Books' = Books /\ RouteMap' = RouteMap
           /\ \A w : BooksOf(w)' = BooksOf(w)
  <1>1. Program' = Program /\ NumWorkers' = NumWorkers /\ QueueCap' = QueueCap
    BY DEF Program, NumWorkers, QueueCap
  <1>2. Workers' = Workers
    BY <1>1 DEF Workers
  <1>3. \A i : WorkerOf(i)' = WorkerOf(i)
    BY <1>1 DEF WorkerOf
  <1>4. ASSUME NEW w PROVE BooksOf(w)' = BooksOf(w)
    BY <1>3 DEF BooksOf
  <1>5. ASSUME NEW instrument PROVE Route(instrument)' = Route(instrument)
    BY <1>3 DEF Route
  <1>6. Books' = Books
    BY <1>2, <1>4 DEF Books
  <1>7. RouteMap' = RouteMap
    BY <1>5 DEF RouteMap
  <1> QED BY <1>1, <1>2, <1>4, <1>6, <1>7

LEMMA InvTypeOK ==
    ASSUME Control, Delivered PROVE TypeOK
  <1>1. Shapes(Workers, Books, queue, handed, accepted, submitted)
    BY DEF Delivered, Delivery
  <1>2. \A w \in Workers : Books[w] = BooksOf(w)
    BY DEF Books
  <1> QED BY <1>1, <1>2 DEF Control, Shapes, TypeOK, Bounded

LEMMA NothingYet ==
    /\ \A w, acc, ask, rt : QueueInv(<<>>, w, acc, ask, rt)
    /\ \A instrument, q, acc : LogInv(<<>>, instrument, q, acc)
  <1>1. Len(<<>>) = 0 /\ 1 .. 0 = {} /\ \A S : <<>> \in Seq(S)
    OBVIOUS
  <1> QED BY <1>1 DEF QueueInv, LogInv

LEMMA InitInv == Init => EngineInv
  <1> SUFFICES ASSUME Init PROVE EngineInv
    OBVIOUS
  <1>1. config \in Configs
    BY DEF Init
  <1>2. /\ NumWorkers \in Nat \ {0} /\ QueueCap \in Nat \ {0}
        /\ Workers = 0 .. NumWorkers - 1
    BY <1>1, RoutingHolds
  <1>3. \A w \in Workers : queue[w] = <<>> /\ unseen[w] = 0 /\ Len(queue[w]) = 0
    BY DEF Init
  <1>4. Control
    BY <1>2, <1>3, NumOrdersAssumption DEF Init, Control, Bounded
  <1>5. Delivered
    <2>1. Shapes(Workers, Books, queue, handed, accepted, submitted)
      <3>1. \A w \in Workers : handed[w] \in [Books[w] -> Seq(Commands)]
        BY DEF Init, Books
      <3> QED BY <3>1 DEF Init, Shapes
    <2>2. Queues(Workers, RouteMap, queue, accepted, asked)
      BY <1>3, NothingYet DEF Queues
    <2>3. Logs(Workers, Books, RouteMap, queue, handed, accepted)
      <3>1. \A w \in Workers : \A instrument \in Books[w] : handed[w][instrument] = <<>>
        BY DEF Init, Books
      <3> QED BY <1>3, <3>1, NothingYet DEF Logs
    <2>4. Kept(RouteMap, queue, handed, accepted, submitted)
      BY DEF Init, Kept
    <2> QED BY <2>1, <2>2, <2>3, <2>4 DEF Delivered, Delivery
  <1>6. Phases /\ Stopped
    BY <1>2, NumOrdersAssumption DEF Init, Phases, Stopped
  <1>7. Fits
    BY <1>3 DEF Init, Fits, Bounded
  <1> QED BY <1>4, <1>5, <1>6, <1>7 DEF EngineInv

\* What every step may use
LEMMA Facts ==
    ASSUME EngineInv, config' = config
    PROVE  /\ NumWorkers \in Nat \ {0} /\ QueueCap \in Nat \ {0}
           /\ Workers = 0 .. NumWorkers - 1
           /\ Routing(Workers, Books, RouteMap)
           /\ queue \in [Workers -> Seq(Commands \cup {Shutdown})]
           /\ \A w \in Workers : Len(queue[w]) \in Nat
           /\ Delivery(Workers, Books, RouteMap, queue, handed, accepted, asked, submitted)
           /\ config' \in Configs
           /\ Program' = Program /\ NumWorkers' = NumWorkers /\ QueueCap' = QueueCap
           /\ Workers' = Workers /\ Books' = Books /\ RouteMap' = RouteMap
  <1>1. config \in Configs /\ TypeOK
    BY InvTypeOK DEF EngineInv, Control
  <1>2. queue \in [Workers -> Seq(Commands \cup {Shutdown})]
    BY <1>1 DEF TypeOK
  <1>3. \A w \in Workers : Len(queue[w]) \in Nat
    BY <1>2
  <1> QED BY <1>1, <1>2, <1>3, RoutingHolds, ConfigKept DEF EngineInv, Delivered

LEMMA BoundedPush ==
    ASSUME NEW W, NEW q \in [W -> Seq(Commands \cup {Shutdown})], NEW un \in [W -> Nat],
           NEW w \in W, NEW cmd \in Commands \cup {Shutdown}, NEW limit \in Int,
           Bounded(W, q, un, limit)
    PROVE  /\ Bounded(W, [q EXCEPT ![w] = Append(@, cmd)], un, limit + 1)
           /\ Len(q[w]) + un[w] < limit =>
                Bounded(W, [q EXCEPT ![w] = Append(@, cmd)], un, limit)
  <1> DEFINE q2 == [q EXCEPT ![w] = Append(@, cmd)]
  <1>1. /\ Len(q2[w]) = Len(q[w]) + 1 /\ \A v \in W : v # w => q2[v] = q[v]
        /\ \A v \in W : Len(q[v]) \in Nat /\ un[v] \in Nat
    OBVIOUS
  <1> HIDE DEF q2
  <1>2. ASSUME NEW v \in W
        PROVE  /\ Len(q2[v]) + un[v] <= limit + 1
               /\ Len(q[w]) + un[w] < limit => Len(q2[v]) + un[v] <= limit
    <2>1. Len(q[v]) + un[v] <= limit
      BY DEF Bounded
    <2>2. CASE v = w BY <1>1, <2>1, <2>2
    <2>3. CASE v # w BY <1>1, <2>1, <2>3
    <2> QED BY <2>2, <2>3
  <1> QED BY <1>2 DEF Bounded, q2

LEMMA BoundedPop ==
    ASSUME NEW W, NEW q \in [W -> Seq(Commands \cup {Shutdown})], NEW un \in [W -> Nat],
           NEW w \in W, q[w] # <<>>, NEW limit, Bounded(W, q, un, limit)
    PROVE  Bounded(W, [q EXCEPT ![w] = Tail(@)], [un EXCEPT ![w] = @ + 1], limit)
  <1> DEFINE q2 == [q EXCEPT ![w] = Tail(@)]
             un2 == [un EXCEPT ![w] = @ + 1]
             S == Commands \cup {Shutdown}
  <1>1. Len(Tail(q[w])) = Len(q[w]) - 1 /\ Len(q[w]) \in Nat
    <2>1. q[w] \in Seq(S)
      OBVIOUS
    <2> HIDE DEF S
    <2> QED BY <2>1, TailFacts
  <1>2. /\ q2[w] = Tail(q[w]) /\ un2[w] = un[w] + 1 /\ un[w] \in Nat
        /\ \A v \in W : v # w => q2[v] = q[v] /\ un2[v] = un[v]
    OBVIOUS
  <1> HIDE DEF q2, un2
  <1>3. ASSUME NEW v \in W PROVE Len(q2[v]) + un2[v] <= limit
    <2>1. Len(q[v]) + un[v] <= limit
      BY DEF Bounded
    <2>2. CASE v = w
      <3>1. Len(q2[w]) + un2[w] = Len(q[w]) + un[w]
        BY <1>1, <1>2
      <3> QED BY <2>1, <2>2, <3>1
    <2>3. CASE v # w BY <1>2, <2>1, <2>3
    <2> QED BY <2>2, <2>3
  <1> QED BY <1>3 DEF Bounded, q2, un2

-----------------------------------------------------------------------------
(***************************************************************************)
(* One lemma per action                                                    *)
(***************************************************************************)

LEMMA SubmitInv ==
    ASSUME EngineInv, NEW instrument, Submit(instrument)
    PROVE  EngineInv'
  <1> DEFINE cmd == Command(submitted + 1, instrument)
             w == Route(instrument)
  <1>1. /\ main = "submit" /\ submitted' = submitted + 1
        /\ main' = IF submitted + 1 = NumOrders THEN AfterSubmits ELSE "submit"
        /\ config' = config /\ unseen' = unseen /\ asked' = asked /\ scan' = scan
        /\ started' = started /\ stopped' = stopped /\ handed' = handed
    BY DEF Submit
  <1> USE Facts
  <1>2. /\ Control /\ Phases /\ Fits /\ asked = {} /\ stopped = {}
        /\ submitted \in Nat /\ submitted < NumOrders /\ NumOrders \in Nat
    BY <1>1, NumOrdersAssumption DEF EngineInv, Control, Phases, Stopped
  <1>3. /\ submitted + 1 \in 0 .. NumOrders /\ submitted + 1 \in Nat
        /\ submitted + 1 # NumOrders => submitted + 1 < NumOrders
        /\ refused \in 0 .. NumOrders /\ refused <= submitted + 1
        /\ refused + 1 \in 0 .. NumOrders /\ refused + 1 <= submitted + 1
    BY <1>2 DEF Control
  <1>4. Phases'
    BY <1>1, <1>2, <1>3 DEF Phases, AfterSubmits
  <1>5. Stopped'
    BY <1>1, <1>2 DEF Stopped
  <1>6. main' \in {"submit", "start", "shutdown", "join", "exit"}
    BY <1>1 DEF AfterSubmits
  <1>7. /\ Bounded(Workers, queue, unseen, submitted)
        /\ Bounded(Workers, queue, unseen, QueueCap - 1)
        /\ unseen \in [Workers -> Nat]
    BY <1>1, <1>2 DEF Control, Fits
  <1>8. Bounded(Workers, queue, unseen, submitted + 1)
    <2>1. \A v \in Workers : Len(queue[v]) \in Nat /\ unseen[v] \in Nat
      BY <1>1, <1>7
    <2> QED BY <1>2, <1>7, <2>1 DEF Bounded
  <1>9. ASSUME queue' = queue, accepted' = accepted, refused' = refused
        PROVE  EngineInv'
    <2>1. Delivered'
      BY <1>1, <1>9, RefusedDelivery DEF Delivered
    <2>2. Control'
      BY <1>1, <1>2, <1>3, <1>6, <1>9 DEF Control
    <2>3. Fits'
      BY <1>1, <1>2, <1>8, <1>9 DEF Fits
    <2> QED BY <1>4, <1>5, <2>1, <2>2, <2>3 DEF EngineInv
  <1>10. ASSUME instrument \in Listed, HasSlot(w), Push(w, cmd),
                accepted' = accepted \cup {cmd}, refused' = refused
         PROVE  EngineInv'
    <2>1. cmd \in Commands /\ cmd.number = submitted + 1 /\ cmd.instrument = instrument
      BY <1>2, <1>10 DEF Commands, Command
    <2>2. w = RouteMap[cmd.instrument] /\ w \in Workers
      BY <1>1, <1>10, <2>1 DEF RouteMap, Routing
    <2>3. queue' = [queue EXCEPT ![w] = Append(@, cmd)]
      BY <1>10 DEF Push
    <2>4. Len(queue[w]) + unseen[w] < QueueCap - 1
      BY <1>10 DEF HasSlot
    <2> HIDE DEF cmd, w
    <2>5. Delivered'
      BY <1>1, <1>2, <1>10, <2>1, <2>2, <2>3, SubmitDelivery DEF Delivered
    <2>6. /\ Bounded(Workers, queue', unseen, QueueCap - 1)
          /\ Bounded(Workers, queue', unseen, submitted + 1)
      <3> DEFINE limit == QueueCap - 1
      <3>1. /\ queue \in [Workers -> Seq(Commands \cup {Shutdown})] /\ w \in Workers
            /\ cmd \in Commands \cup {Shutdown} /\ limit \in Int /\ submitted \in Int
            /\ Bounded(Workers, queue, unseen, limit) /\ Len(queue[w]) + unseen[w] < limit
        BY <1>1, <1>2, <1>7, <2>1, <2>2, <2>4
      <3> HIDE DEF limit
      <3>2. Bounded(Workers, [queue EXCEPT ![w] = Append(@, cmd)], unseen, limit)
        BY <1>7, <3>1, BoundedPush
      <3>3. Bounded(Workers, [queue EXCEPT ![w] = Append(@, cmd)], unseen, submitted + 1)
        BY <1>7, <3>1, BoundedPush
      <3> QED BY <2>3, <3>2, <3>3 DEF limit
    <2>7. Control'
      BY <1>1, <1>2, <1>3, <1>6, <1>10, <2>6 DEF Control
    <2>8. Fits'
      BY <1>1, <1>2, <1>10, <2>6 DEF Fits
    <2> QED BY <1>4, <1>5, <2>5, <2>7, <2>8 DEF EngineInv
  <1>11. ASSUME instrument \in Listed, ~ HasSlot(w), refused' = refused + 1,
                queue' = queue, accepted' = accepted
         PROVE  EngineInv'
    <2>1. w \in Workers
      BY <1>1, <1>11 DEF RouteMap, Routing
    <2>2. ~ (NumOrders < QueueCap)
      <3>1. ~ (Len(queue[w]) + unseen[w] < QueueCap - 1)
        BY <1>11 DEF HasSlot
      <3>2. Len(queue[w]) + unseen[w] <= submitted
        BY <1>7, <2>1 DEF Bounded
      <3>3. Len(queue[w]) \in Nat /\ unseen[w] \in Nat /\ QueueCap \in Nat
        BY <1>1, <1>7, <2>1
      <3> HIDE DEF w
      <3> QED BY <1>2, <3>1, <3>2, <3>3
    <2>3. Delivered'
      BY <1>1, <1>11, RefusedDelivery DEF Delivered
    <2>4. Control'
      BY <1>1, <1>2, <1>3, <1>6, <1>11 DEF Control
    <2>5. Fits'
      BY <1>1, <1>2, <1>8, <1>11, <2>2 DEF Fits
    <2> QED BY <1>4, <1>5, <2>3, <2>4, <2>5 DEF EngineInv
  <1> QED BY <1>9, <1>10, <1>11 DEF Submit

LEMMA StartWorkerInv ==
    ASSUME EngineInv, StartWorker PROVE EngineInv'
  <1>1. /\ main = "start" /\ started' = started + 1
        /\ main' = IF started + 1 = NumWorkers THEN AfterStarts ELSE "start"
        /\ config' = config /\ submitted' = submitted /\ accepted' = accepted
        /\ refused' = refused /\ queue' = queue /\ unseen' = unseen /\ asked' = asked
        /\ scan' = scan /\ stopped' = stopped /\ handed' = handed
    BY DEF StartWorker
  <1> USE Facts
  <1>2. Control /\ Phases /\ Stopped /\ Fits /\ asked = {}
    BY <1>1 DEF EngineInv, Phases
  <1>3. /\ started + 1 \in 0 .. NumWorkers
        /\ started + 1 # NumWorkers => started + 1 < NumWorkers
    BY <1>1, <1>2 DEF Control, Phases
  <1>4. Control'
    BY <1>1, <1>2, <1>3 DEF Control, AfterStarts
  <1>5. Delivered'
    BY <1>1 DEF Delivered
  <1>6. Phases'
    BY <1>1, <1>2, <1>3, NumOrdersAssumption DEF Phases, AfterStarts
  <1>7. Stopped' /\ Fits'
    BY <1>1, <1>2 DEF Stopped, Fits
  <1> QED BY <1>4, <1>5, <1>6, <1>7 DEF EngineInv

LEMMA AskShutdownInv ==
    ASSUME EngineInv, AskShutdown PROVE EngineInv'
  <1>1. /\ main = "shutdown" /\ Ask(scan)
        /\ scan' = IF scan = NumWorkers - 1 THEN 0 ELSE scan + 1
        /\ \/ main' = "join" /\ started' = NumWorkers
           \/ main' = main /\ started' = started
        /\ config' = config /\ submitted' = submitted /\ accepted' = accepted
        /\ refused' = refused /\ unseen' = unseen /\ stopped' = stopped
        /\ handed' = handed
    BY DEF AskShutdown
  <1> USE Facts
  <1>2. Control /\ Phases /\ Stopped /\ Fits /\ scan \in Workers
    BY DEF EngineInv, Control
  <1>3. (IF scan = NumWorkers - 1 THEN 0 ELSE scan + 1) \in Workers
    BY <1>1, <1>2
  <1>4. /\ main' \in {"shutdown", "join"} /\ started' \in 0 .. NumWorkers
        /\ scan' \in Workers
    BY <1>1, <1>2, <1>3 DEF Control
  <1>5. Phases'
    BY <1>1, <1>2, <1>4 DEF Phases
  <1>6. Fits'
    BY <1>1, <1>2, <1>4 DEF Fits
  <1>7. ASSUME queue' = queue, asked' = asked PROVE EngineInv'
    <2>1. Control'
      BY <1>1, <1>2, <1>4, <1>7 DEF Control
    <2>2. Delivered'
      BY <1>1, <1>7 DEF Delivered
    <2>3. Stopped'
      BY <1>1, <1>2, <1>7 DEF Stopped
    <2> QED BY <1>5, <1>6, <2>1, <2>2, <2>3 DEF EngineInv
  <1>8. ASSUME scan \notin asked, HasSlot(scan), Push(scan, Shutdown),
               asked' = asked \cup {scan}
        PROVE  EngineInv'
    <2>1. queue' = [queue EXCEPT ![scan] = Append(@, Shutdown)]
      BY <1>8 DEF Push
    <2>2. Bounded(Workers, queue', unseen, QueueCap - 1)
      <3> DEFINE limit == QueueCap - 1
      <3>1. /\ queue \in [Workers -> Seq(Commands \cup {Shutdown})]
            /\ Shutdown \in Commands \cup {Shutdown} /\ limit \in Int
            /\ unseen \in [Workers -> Nat]
            /\ Bounded(Workers, queue, unseen, limit)
            /\ Len(queue[scan]) + unseen[scan] < limit
        BY <1>1, <1>2, <1>8 DEF Control, HasSlot
      <3> HIDE DEF limit
      <3>2. Bounded(Workers, [queue EXCEPT ![scan] = Append(@, Shutdown)], unseen, limit)
        BY <1>2, <3>1, BoundedPush
      <3> QED BY <2>1, <3>2 DEF limit
    <2>3. Control'
      BY <1>1, <1>2, <1>4, <1>8, <2>2 DEF Control
    <2>4. Delivered'
      BY <1>1, <1>2, <1>8, <2>1, PillDelivery DEF Delivered
    <2>5. Stopped'
      <3>1. ASSUME NEW w \in stopped PROVE queue'[w] = <<>> /\ w \in asked'
        <4>1. queue[w] = <<>> /\ w \in asked /\ w \in Workers /\ w # scan
          BY <1>2, <1>8 DEF Stopped, Control
        <4>2. queue'[w] = queue[w]
          BY <1>1, <2>1, <4>1
        <4> QED BY <1>8, <4>1, <4>2
      <3> QED BY <1>1, <3>1 DEF Stopped
    <2> QED BY <1>5, <1>6, <2>3, <2>4, <2>5 DEF EngineInv
  <1> QED BY <1>1, <1>7, <1>8 DEF Ask

LEMMA JoinInv ==
    ASSUME EngineInv, Join PROVE EngineInv'
  <1>1. /\ main = "join" /\ stopped = Workers /\ main' = "exit"
        /\ config' = config /\ submitted' = submitted /\ accepted' = accepted
        /\ refused' = refused /\ asked' = asked /\ scan' = scan /\ started' = started
        /\ queue' = queue /\ unseen' = unseen /\ stopped' = stopped /\ handed' = handed
    BY DEF Join
  <1> USE Facts
  <1>2. Control /\ Phases /\ Stopped /\ Fits
    BY DEF EngineInv
  <1>3. Control'
    BY <1>1, <1>2 DEF Control
  <1>4. Delivered'
    BY <1>1 DEF Delivered
  <1>5. Phases' /\ Stopped' /\ Fits'
    BY <1>1, <1>2 DEF Phases, Stopped, Fits
  <1> QED BY <1>3, <1>4, <1>5 DEF EngineInv

\* What ProcessCommand and Stop share
LEMMA PopFacts ==
    ASSUME EngineInv, NEW w, Pop(w), UNCHANGED mainVars
    PROVE  /\ w \in Workers /\ w \notin stopped /\ queue[w] # <<>>
           /\ queue' = [queue EXCEPT ![w] = Tail(@)]
           /\ Head(queue[w]) \in Commands \cup {Shutdown}
           /\ Control' <=> (stopped' \subseteq Workers)
           /\ Fits'
  <1>1. /\ w \in Workers /\ w \notin stopped /\ queue[w] # <<>>
        /\ queue' = [queue EXCEPT ![w] = Tail(@)]
        /\ unseen' = [unseen EXCEPT ![w] = @ + 1]
    BY DEF Pop, Running
  <1>2. /\ config' = config /\ main' = main /\ submitted' = submitted
        /\ accepted' = accepted /\ refused' = refused /\ asked' = asked
        /\ scan' = scan /\ started' = started
    BY DEF mainVars
  <1> USE Facts
  <1>3. Control /\ Fits /\ unseen \in [Workers -> Nat]
    BY DEF EngineInv, Control
  <1>4. queue \in [Workers -> Seq(Commands \cup {Shutdown})]
    BY <1>2
  <1>5. Head(queue[w]) \in Commands \cup {Shutdown}
    <2> DEFINE S == Commands \cup {Shutdown}
    <2>1. queue[w] \in Seq(S)
      BY <1>1, <1>4
    <2> HIDE DEF S
    <2>2. Head(queue[w]) \in S
      BY <1>1, <2>1, TailFacts
    <2> QED BY <2>2 DEF S
  <1>6. unseen' \in [Workers -> Nat]
    BY <1>1, <1>3
  <1>7. \A limit : Bounded(Workers, queue, unseen, limit) =>
                        Bounded(Workers, queue', unseen', limit)
    BY <1>1, <1>3, <1>4, BoundedPop
  <1>8. Control' <=> (stopped' \subseteq Workers)
    BY <1>2, <1>3, <1>6, <1>7 DEF Control
  <1>9. Fits'
    BY <1>2, <1>3, <1>7 DEF Fits
  <1> QED BY <1>1, <1>5, <1>8, <1>9

LEMMA ProcessCommandInv ==
    ASSUME EngineInv, NEW w, ProcessCommand(w) PROVE EngineInv'
  <1> DEFINE cmd == Head(queue[w])
  <1>1. /\ Pop(w) /\ cmd.type # "SHUTDOWN" /\ UNCHANGED mainVars /\ stopped' = stopped
        /\ handed' = IF cmd.instrument \in BooksOf(w)
                     THEN [handed EXCEPT ![w][cmd.instrument] = Append(@, cmd)]
                     ELSE handed
    BY DEF ProcessCommand
  <1>2. /\ config' = config /\ main' = main /\ submitted' = submitted
        /\ accepted' = accepted /\ asked' = asked /\ started' = started
    BY <1>1 DEF mainVars
  <1> USE Facts
  <1>3. /\ w \in Workers /\ w \notin stopped /\ queue[w] # <<>>
        /\ queue' = [queue EXCEPT ![w] = Tail(@)]
        /\ cmd \in Commands \cup {Shutdown}
        /\ Control' <=> (stopped' \subseteq Workers)
        /\ Fits'
    BY <1>1, PopFacts
  <1>4. Control /\ Phases /\ Stopped
    BY DEF EngineInv
  <1>5. Control'
    BY <1>1, <1>3, <1>4 DEF Control
  <1>6. cmd # Shutdown
    BY <1>1, CommandsKinds
  <1>7. Delivered'
    <2>1. /\ cmd.instrument \in Books[w]
          /\ Delivery(Workers, Books, RouteMap, [queue EXCEPT ![w] = Tail(@)],
                      [handed EXCEPT ![w][cmd.instrument] = Append(@, cmd)],
                      accepted, asked, submitted)
      BY <1>2, <1>3, <1>6, ProcessDelivery
    <2>2. Books[w] = BooksOf(w)
      BY <1>3 DEF Books
    <2> HIDE DEF cmd
    <2>3. handed' = [handed EXCEPT ![w][cmd.instrument] = Append(@, cmd)]
      BY <1>1, <2>1, <2>2
    <2> QED BY <1>2, <1>3, <2>1, <2>3 DEF Delivered
  <1>8. Phases'
    BY <1>1, <1>2, <1>4 DEF Phases
  <1>9. Stopped'
    <2>1. ASSUME NEW v \in stopped PROVE queue'[v] = <<>> /\ v \in asked
      <3>1. queue[v] = <<>> /\ v \in asked /\ v \in Workers /\ v # w
        BY <1>3, <1>4 DEF Stopped, Control
      <3> QED BY <1>2, <1>3, <3>1
    <2> QED BY <1>1, <1>2, <2>1 DEF Stopped
  <1> QED BY <1>3, <1>5, <1>7, <1>8, <1>9 DEF EngineInv

LEMMA StopInv ==
    ASSUME EngineInv, NEW w, Stop(w) PROVE EngineInv'
  <1>1. /\ Pop(w) /\ Head(queue[w]).type = "SHUTDOWN" /\ UNCHANGED mainVars
        /\ stopped' = stopped \cup {w} /\ handed' = handed
    BY DEF Stop
  <1>2. /\ config' = config /\ main' = main /\ submitted' = submitted
        /\ accepted' = accepted /\ asked' = asked /\ started' = started
    BY <1>1 DEF mainVars
  <1> USE Facts
  <1>3. /\ w \in Workers /\ w \notin stopped /\ queue[w] # <<>>
        /\ queue' = [queue EXCEPT ![w] = Tail(@)]
        /\ Head(queue[w]) \in Commands \cup {Shutdown}
        /\ Control' <=> (stopped' \subseteq Workers)
        /\ Fits'
    BY <1>1, PopFacts
  <1>4. Control /\ Phases /\ Stopped /\ stopped \subseteq Workers
    BY DEF EngineInv, Control
  <1>5. Control'
    BY <1>1, <1>3, <1>4
  <1>6. Head(queue[w]) = Shutdown
    BY <1>1, <1>3, CommandsKinds
  <1>7. /\ Tail(queue[w]) = <<>> /\ w \in asked
        /\ Delivery(Workers, Books, RouteMap, [queue EXCEPT ![w] = Tail(@)], handed,
                    accepted, asked, submitted)
    <2>1. /\ Routing(Workers, Books, RouteMap)
          /\ Delivery(Workers, Books, RouteMap, queue, handed, accepted, asked, submitted)
      BY <1>2
    <2>2. w \in Workers /\ queue[w] # <<>>
      BY <1>3
    <2> HIDE Facts
    <2> QED BY ONLY <1>6, <2>1, <2>2, StopDelivery, ZenonT(60)
  <1>8. Delivered'
    BY <1>1, <1>2, <1>3, <1>7 DEF Delivered
  <1>9. Phases'
    BY <1>1, <1>2, <1>3, <1>4 DEF Phases
  <1>10. Stopped'
    <2>1. ASSUME NEW v \in stopped \cup {w} PROVE queue'[v] = <<>> /\ v \in asked
      <3>1. CASE v = w
        BY <1>2, <1>3, <1>7, <3>1
      <3>2. CASE v # w
        <4>1. queue[v] = <<>> /\ v \in asked /\ v \in Workers
          BY <1>4, <3>2 DEF Stopped
        <4> QED BY <1>2, <1>3, <3>2, <4>1
      <3> QED BY <3>1, <3>2
    <2> QED BY <1>1, <1>2, <2>1 DEF Stopped
  <1> QED BY <1>3, <1>5, <1>8, <1>9, <1>10 DEF EngineInv

LEMMA SeePopInv ==
    ASSUME EngineInv, NEW w, SeePop(w) PROVE EngineInv'
  <1>1. /\ w \in Workers /\ unseen[w] > 0 /\ unseen' = [unseen EXCEPT ![w] = @ - 1]
        /\ config' = config /\ main' = main /\ submitted' = submitted
        /\ accepted' = accepted /\ refused' = refused /\ asked' = asked
        /\ scan' = scan /\ started' = started
        /\ queue' = queue /\ stopped' = stopped /\ handed' = handed
    BY DEF SeePop, mainVars
  <1> USE Facts
  <1>2. Control /\ Phases /\ Stopped /\ Fits /\ unseen \in [Workers -> Nat]
    BY DEF EngineInv, Control
  <1>3. unseen' \in [Workers -> Nat]
    <2>1. unseen[w] - 1 \in Nat
      BY <1>1, <1>2
    <2> QED BY <1>1, <1>2, <2>1
  <1>4. \A v \in Workers : unseen'[v] <= unseen[v] /\ unseen'[v] \in Nat /\ unseen[v] \in Nat
    BY <1>1, <1>2
  <1>5. \A v \in Workers : Len(queue[v]) \in Nat
    BY <1>1
  <1>6. ASSUME NEW limit \in Int, Bounded(Workers, queue, unseen, limit)
        PROVE  Bounded(Workers, queue, unseen', limit)
    BY <1>4, <1>5, <1>6 DEF Bounded
  <1>7. QueueCap - 1 \in Int /\ submitted \in Int
    BY <1>1, <1>2, NumOrdersAssumption DEF Control
  <1>8. Control'
    BY <1>1, <1>2, <1>3, <1>6, <1>7 DEF Control
  <1>9. Delivered'
    BY <1>1 DEF Delivered
  <1>10. Phases' /\ Stopped' /\ Fits'
    BY <1>1, <1>2, <1>6, <1>7 DEF Phases, Stopped, Fits
  <1> QED BY <1>8, <1>9, <1>10 DEF EngineInv

LEMMA StutterInv ==
    ASSUME EngineInv, UNCHANGED vars PROVE EngineInv'
  <1>1. /\ config' = config /\ main' = main /\ submitted' = submitted
        /\ accepted' = accepted /\ refused' = refused /\ asked' = asked
        /\ scan' = scan /\ started' = started /\ unseen' = unseen
        /\ queue' = queue /\ stopped' = stopped /\ handed' = handed
    BY DEF vars, mainVars
  <1> USE Facts
  <1>2. Control /\ Phases /\ Stopped /\ Fits
    BY DEF EngineInv
  <1>3. Control'
    BY <1>1, <1>2 DEF Control
  <1>4. Delivered'
    BY <1>1 DEF Delivered
  <1>5. Phases' /\ Stopped' /\ Fits'
    BY <1>1, <1>2 DEF Phases, Stopped, Fits
  <1> QED BY <1>3, <1>4, <1>5 DEF EngineInv

-----------------------------------------------------------------------------
(***************************************************************************)
(* Theorems                                                                *)
(***************************************************************************)

LEMMA NextInv == EngineInv /\ [Next]_vars => EngineInv'
  <1> SUFFICES ASSUME EngineInv, [Next]_vars PROVE EngineInv'
    OBVIOUS
  <1>1. ASSUME NEW instrument, Submit(instrument) PROVE EngineInv'
    BY <1>1, SubmitInv
  <1>2. CASE StartWorker
    BY <1>2, StartWorkerInv
  <1>3. CASE AskShutdown
    BY <1>3, AskShutdownInv
  <1>4. CASE Join
    BY <1>4, JoinInv
  <1>5. ASSUME NEW w, ProcessCommand(w) PROVE EngineInv'
    BY <1>5, ProcessCommandInv
  <1>6. ASSUME NEW w, Stop(w) PROVE EngineInv'
    BY <1>6, StopInv
  <1>7. ASSUME NEW w, SeePop(w) PROVE EngineInv'
    BY <1>7, SeePopInv
  <1>8. CASE UNCHANGED vars
    BY <1>8, StutterInv
  <1> QED
    BY <1>1, <1>2, <1>3, <1>4, <1>5, <1>6, <1>7, <1>8 DEF Next, Main, Work

\* The invariant: what is accepted is in its worker's queue or in its book's
\* log, in the order of submission, for any number of workers and orders.
THEOREM EngineInvariant == Spec => []EngineInv
  BY InitInv, NextInv, PTL DEF Spec

\* All variables keep their types, and no ring buffer of Producer::submit or
\* submit_all_shutdown_commands is ever filled to its last slot.
THEOREM EngineTypes == Spec => []TypeOK
  <1>1. EngineInv => TypeOK
    BY InvTypeOK DEF EngineInv
  <1> QED BY <1>1, EngineInvariant, PTL

\* With more slots than orders Producer::submit refuses no order, although the
\* producer may not have seen any pop.
THEOREM NoneRefused == Spec => []NoOrderRefused
  <1>1. EngineInv => NoOrderRefused
    BY DEF EngineInv, Fits, NoOrderRefused
  <1> QED BY <1>1, EngineInvariant, PTL

\* The log of the book that an instrument is routed to
LEMMA RoutedLog ==
    ASSUME EngineInv, NEW instrument \in Listed
    PROVE  LET w == RouteMap[instrument]
               log == handed[w][instrument]
           IN  /\ w \in Owners(instrument)
               /\ LogInv(log, instrument, queue[w], accepted)
               /\ \A cmd \in Requests(instrument) :
                        cmd \in Commands /\ Present(cmd, queue[w], log)
               /\ queue[w] \in Seq(Commands \cup {Shutdown})
               /\ \A v \in Owners(instrument) \ {w} : handed[v][instrument] = <<>>
  <1> DEFINE w == RouteMap[instrument]
             log == handed[w][instrument]
  <1>1. /\ Routing(Workers, Books, RouteMap)
        /\ Delivery(Workers, Books, RouteMap, queue, handed, accepted, asked, submitted)
    BY RoutingHolds DEF EngineInv, Control, Delivered
  <1>2. w \in Workers /\ instrument \in Books[w] /\ \A v \in Workers : Books[v] = BooksOf(v)
    BY <1>1 DEF Routing, Books
  <1>3. w \in Owners(instrument)
    BY <1>2 DEF Owners
  <1>4. LogInv(log, instrument, queue[w], accepted)
    BY <1>1, <1>2 DEF Delivery, Logs
  <1>5. queue[w] \in Seq(Commands \cup {Shutdown}) /\ accepted \subseteq Commands
    BY <1>1, <1>2 DEF Delivery, Shapes
  <1>6. \A cmd \in Requests(instrument) : cmd \in Commands /\ Present(cmd, queue[w], log)
    BY <1>1, <1>5 DEF Delivery, Kept, Requests
  <1>7. \A v \in Owners(instrument) \ {w} : handed[v][instrument] = <<>>
    BY <1>1, <1>2 DEF Delivery, Logs, Owners
  <1> QED BY <1>3, <1>4, <1>5, <1>6, <1>7

\* A log is in the order of submission: whatever is not in it waits behind it.
LEMMA LogInOrder ==
    ASSUME NEW log, NEW instrument, NEW q, LogInv(log, instrument, q, accepted),
           \A cmd \in Requests(instrument) : cmd \in Commands /\ Present(cmd, q, log)
    PROVE  InSubmissionOrder(log, Requests(instrument))
  <1>1. DOMAIN log = 1 .. Len(log) /\ Len(log) \in Nat
        /\ \A i \in 1 .. Len(log) : log[i] \in Commands
    BY DEF LogInv
  <1>2. Logged(log) \subseteq Requests(instrument)
    BY <1>1 DEF LogInv, Logged, Requests
  <1>3. \A i, j \in DOMAIN log : i < j => log[i].number < log[j].number
    <2>1. ASSUME NEW i \in DOMAIN log, NEW j \in DOMAIN log, i < j
          PROVE  log[i].number < log[j].number
      <3>1. i \in 1 .. j - 1 /\ j \in 1 .. Len(log)
        BY <1>1, <2>1
      <3> QED BY <3>1 DEF LogInv
    <2> QED BY <2>1
  <1>4. ASSUME NEW cmd \in Requests(instrument), NEW i \in DOMAIN log,
               cmd.number < log[i].number
        PROVE  cmd \in Logged(log)
    <2>1. cmd \in Commands /\ Present(cmd, q, log) /\ cmd.instrument = instrument
      BY DEF Requests
    <2>2. cmd # Shutdown /\ cmd.number \in Int /\ log[i].number \in Int
      BY <1>1, <2>1, CommandsKinds, NumOrdersAssumption
    <2>3. ~ \E k \in 1 .. Len(q) : q[k] = cmd
      <3>1. ASSUME NEW k \in 1 .. Len(q), q[k] = cmd PROVE FALSE
        <4>1. log[i].number < cmd.number
          BY <1>1, <2>1, <2>2, <3>1 DEF LogInv
        <4> QED BY <1>4, <2>2, <4>1
      <3> QED BY <3>1
    <2> QED BY <1>1, <2>1, <2>3 DEF Present, Logged
  <1> QED BY <1>2, <1>3, <1>4 DEF InSubmissionOrder

\* Every accepted command of an instrument goes to one book, once and in the
\* order of submission, also when the instrument is listed more than once.
THEOREM OneBook == Spec => []OneBookPerInstrument
  <1>1. EngineInv => OneBookPerInstrument
    <2> SUFFICES ASSUME EngineInv, NEW instrument \in Listed
                 PROVE  \E w \in Owners(instrument) :
                            /\ InSubmissionOrder(handed[w][instrument], Requests(instrument))
                            /\ \A v \in Owners(instrument) \ {w} :
                                    handed[v][instrument] = <<>>
      BY DEF OneBookPerInstrument
    <2> DEFINE w == RouteMap[instrument]
    <2>1. /\ w \in Owners(instrument)
          /\ LogInv(handed[w][instrument], instrument, queue[w], accepted)
          /\ \A cmd \in Requests(instrument) :
                cmd \in Commands /\ Present(cmd, queue[w], handed[w][instrument])
          /\ \A v \in Owners(instrument) \ {w} : handed[v][instrument] = <<>>
      BY RoutedLog
    <2> HIDE DEF w
    <2>2. InSubmissionOrder(handed[w][instrument], Requests(instrument))
      BY <2>1, LogInOrder
    <2> QED BY <2>1, <2>2
  <1> QED BY <1>1, EngineInvariant, PTL

\* When main exits, the queues are empty and all that submit accepted was
\* handed to a book: no command was left behind a poison pill.
THEOREM NothingLeft == Spec => []NothingLeftAtExit
  <1>1. EngineInv => NothingLeftAtExit
    <2> SUFFICES ASSUME EngineInv, main = "exit"
                 PROVE  /\ \A w \in Workers : queue[w] = <<>>
                        /\ \A instrument \in Listed : \E w \in Owners(instrument) :
                                Logged(handed[w][instrument]) = Requests(instrument)
      BY DEF NothingLeftAtExit
    <2>1. \A w \in Workers : queue[w] = <<>>
      BY DEF EngineInv, Phases, Stopped
    <2>2. ASSUME NEW instrument \in Listed
          PROVE  \E w \in Owners(instrument) :
                    Logged(handed[w][instrument]) = Requests(instrument)
      <3> DEFINE w == RouteMap[instrument]
                 log == handed[w][instrument]
      <3>1. /\ w \in Owners(instrument)
            /\ LogInv(log, instrument, queue[w], accepted)
            /\ \A cmd \in Requests(instrument) :
                  cmd \in Commands /\ Present(cmd, queue[w], log)
        BY RoutedLog
      <3>2. queue[w] = <<>>
        BY <2>1, <3>1 DEF Owners
      <3> HIDE DEF w, log
      <3>3. DOMAIN log = 1 .. Len(log)
        BY <3>1 DEF LogInv
      <3>4. Requests(instrument) \subseteq Logged(log)
        <4>1. ASSUME NEW cmd \in Requests(instrument) PROVE cmd \in Logged(log)
          <5>1. Len(queue[w]) = 0 /\ Present(cmd, queue[w], log)
            BY <3>1, <3>2
          <5>2. PICK k \in 1 .. Len(log) : log[k] = cmd
            BY <5>1 DEF Present
          <5> QED BY <3>3, <5>2 DEF Logged
        <4> QED BY <4>1
      <3>5. Logged(log) \subseteq Requests(instrument)
        BY <3>1, <3>3 DEF LogInv, Logged, Requests
      <3>6. Logged(log) = Requests(instrument)
        BY <3>4, <3>5
      <3>7. Logged(handed[w][instrument]) = Requests(instrument)
        BY <3>6 DEF log
      <3> HIDE DEF log
      <3> QED BY <3>1, <3>7
    <2> QED BY <2>1, <2>2
  <1> QED BY <1>1, EngineInvariant, PTL

=============================================================================
