--------------------------- MODULE ModulesProofs ---------------------------
(***************************************************************************)
(* Why the module table and the timers agree, for any set of modules, any  *)
(* number of HTTP threads and any requests.  While the manager boots, its  *)
(* script brings up every module once.  Afterwards a module is either      *)
(* untouched, or somebody has begun to stop it: from then on each timer    *)
(* that its Shutdown stops is stopped already or named by a command that   *)
(* an actor still has to carry out.                                        *)
(***************************************************************************)
EXTENDS Modules, FiniteSetTheorems, SequenceTheorems, TLAPS

(* Commands in the scripts of the servers.                                   *)
ServerCommand == ({"spawn", "stop"} \X Part) \cup ({"state"} \X {"RUNNING", "STOPPED"})

(* Where a command is in a script. *)
Has(s, c)  == \E i \in DOMAIN s : s[i] = c
Once(s, c) == \E i \in DOMAIN s : s[i] = c /\ \A j \in DOMAIN s : s[j] = c => j = i

TypeInv ==
    /\ TypeOK
    /\ IF phase = "init" THEN \A a \in Actor : Idle(a)
       ELSE \A m \in Module : row[m].state # "none" /\ row[m].status = "ACTIVE"

-----------------------------------------------------------------------------
(* The boot. *)

spawning(m, p) == <<m, "spawn", p>>

(* A module whose turn has not come, and one that is being brought up. *)
Unbooted(m) ==
    /\ Once(todo["manager"], <<m, "boot", "module">>)
    /\ \A i \in DOMAIN todo["manager"] :
           todo["manager"][i][1] = m => todo["manager"][i] = <<m, "boot", "module">>
    /\ \A p \in Part : Total(<<m, p>>) = 0
Booted(m) ==
    /\ ~Has(todo["manager"], <<m, "boot", "module">>)
    /\ row[m].state = "RUNNING" \/ Has(todo["manager"], <<m, "state", "RUNNING">>)
    /\ \A p \in Parts(m) :
           \/ Total(<<m, p>>) = 1 /\ ~Has(todo["manager"], spawning(m, p))
           \/ Total(<<m, p>>) = 0 /\ Once(todo["manager"], spawning(m, p))

BootInv ==
    /\ phase \in {"init", "boot"} =>
           /\ \A c \in Client : Idle(c)
           /\ \A t \in Timer : ~stopped[t]
    /\ phase = "init" => /\ \A t \in Timer : Total(t) = 0
                         /\ \A m \in Module : row[m].state = "none"
    /\ phase = "boot" =>
           /\ \A i \in DOMAIN todo["manager"] :
                  LET c == todo["manager"][i]
                  IN  c[2] \in {"boot", "spawn"} \/ (c[2] = "state" /\ c[3] = "RUNNING")
           /\ \A m \in Module : Unbooted(m) \/ Booted(m)

-----------------------------------------------------------------------------
(* After the boot. *)

(* The timers that the Shutdown of a server stops, and its own thread. *)
StopParts(m) == {"server"} \cup {p \in Part : Contains(Server[m].shutdown, stop(p))}

(* A timer is stopped, or somebody is about to stop it. *)
Ends(m, p) ==
    \/ stopped[<<m, p>>]
    \/ \E a \in Actor : \/ Has(todo[a], <<m, "stop", p>>)
                        \/ Has(todo[a], <<m, "close", "module">>)
Ending(m) == \A p \in StopParts(m) : Ends(m, p)

(* Nobody has begun to stop the module. *)
Untouched(m) ==
    /\ row[m].state = "RUNNING"
    /\ \A p \in Part : ~stopped[<<m, p>>]
    /\ \A p \in Parts(m) : Total(<<m, p>>) = 1
    /\ \A a \in Actor : \A i \in DOMAIN todo[a] :
           todo[a][i][1] = m => todo[a][i][2] \in {"start", "halt"}

LifeInv ==
    /\ phase \in {"serve", "done"} => Idle("manager")
    /\ phase = "done" => \A c \in Client : Idle(c)
    /\ phase \in {"serve", "halt", "done"} => \A m \in Module : Untouched(m) \/ Ending(m)
    /\ phase \in {"halt", "done"} => \A m \in Module : Ending(m)

(* Servers that stop all the timers they start: not those of S3 and DynamoDB, *)
(* which forget their workers.                                                *)
CompleteShutdown == \A m \in Module : Parts(m) \subseteq StopParts(m)

-----------------------------------------------------------------------------
(* Scripts: what is in a concatenation, and what is left after one command.  *)

LEMMA HasConcat ==
    ASSUME NEW X, NEW s \in Seq(X), NEW t \in Seq(X), NEW c
    PROVE  /\ s \o t \in Seq(X)
           /\ Has(s \o t, c) <=> Has(s, c) \/ Has(t, c)
<1>1. /\ s \o t \in Seq(X) /\ Len(s \o t) = Len(s) + Len(t)
      /\ \A i \in 1..(Len(s) + Len(t)) : (s \o t)[i] = IF i <= Len(s) THEN s[i] ELSE t[i - Len(s)]
  BY ConcatProperties
<1>2. DOMAIN s = 1..Len(s) /\ DOMAIN t = 1..Len(t) /\ Len(s) \in Nat /\ Len(t) \in Nat
  OBVIOUS
<1>3. DOMAIN (s \o t) = 1..(Len(s) + Len(t))
  BY <1>1
<1>4. ASSUME NEW i \in DOMAIN t PROVE (s \o t)[Len(s) + i] = t[i] /\ Len(s) + i \in DOMAIN (s \o t)
  BY <1>1, <1>2, <1>3
<1>5. \A i \in DOMAIN s : (s \o t)[i] = s[i] /\ i \in DOMAIN (s \o t)
  BY <1>1, <1>2, <1>3
<1>6. Has(s, c) \/ Has(t, c) => Has(s \o t, c)
  BY <1>4, <1>5 DEF Has
<1>7. Has(s \o t, c) => Has(s, c) \/ Has(t, c)
  BY <1>1, <1>2, <1>3 DEF Has
<1> QED
  BY <1>1, <1>6, <1>7

LEMMA OnceConcat ==
    ASSUME NEW X, NEW s \in Seq(X), NEW t \in Seq(X), NEW c
    PROVE  /\ Once(s, c) /\ ~Has(t, c) => Once(s \o t, c)
           /\ ~Has(s, c) /\ Once(t, c) => Once(s \o t, c)
<1>1. /\ s \o t \in Seq(X) /\ Len(s \o t) = Len(s) + Len(t)
      /\ \A i \in 1..(Len(s) + Len(t)) : (s \o t)[i] = IF i <= Len(s) THEN s[i] ELSE t[i - Len(s)]
  BY ConcatProperties
<1>2. DOMAIN s = 1..Len(s) /\ DOMAIN t = 1..Len(t) /\ Len(s) \in Nat /\ Len(t) \in Nat
  OBVIOUS
<1>3. DOMAIN (s \o t) = 1..(Len(s) + Len(t))
  BY <1>1
<1>4. ASSUME Once(s, c), ~Has(t, c)
      PROVE  Once(s \o t, c)
  <2>1. PICK i \in DOMAIN s : s[i] = c /\ \A j \in DOMAIN s : s[j] = c => j = i
    BY <1>4 DEF Once
  <2>2. i \in DOMAIN (s \o t) /\ (s \o t)[i] = c
    BY <1>1, <1>2, <1>3, <2>1
  <2>3. ASSUME NEW j \in DOMAIN (s \o t), (s \o t)[j] = c
        PROVE  j = i
    BY <1>1, <1>2, <1>3, <1>4, <2>1, <2>3 DEF Has
  <2> QED
    BY <2>2, <2>3 DEF Once
<1>5. ASSUME ~Has(s, c), Once(t, c)
      PROVE  Once(s \o t, c)
  <2>1. PICK i \in DOMAIN t : t[i] = c /\ \A j \in DOMAIN t : t[j] = c => j = i
    BY <1>5 DEF Once
  <2>2. Len(s) + i \in DOMAIN (s \o t) /\ (s \o t)[Len(s) + i] = c
    BY <1>1, <1>2, <1>3, <2>1
  <2>3. ASSUME NEW j \in DOMAIN (s \o t), (s \o t)[j] = c
        PROVE  j = Len(s) + i
    <3>1. CASE j <= Len(s)
      BY <1>1, <1>2, <1>3, <1>5, <2>3, <3>1 DEF Has
    <3>2. CASE j > Len(s)
      <4>1. j - Len(s) \in DOMAIN t /\ t[j - Len(s)] = c
        BY <1>1, <1>2, <1>3, <2>3, <3>2
      <4> QED
        BY <1>2, <1>3, <2>1, <4>1
    <3> QED
      BY <1>2, <1>3, <3>1, <3>2
  <2> QED
    BY <2>2, <2>3 DEF Once
<1> QED
  BY <1>4, <1>5

LEMMA HeadAndTail ==
    ASSUME NEW X, NEW s \in Seq(X), s # <<>>, NEW c
    PROVE  /\ Head(s) \in X /\ Tail(s) \in Seq(X)
           /\ Has(s, c) <=> Head(s) = c \/ Has(Tail(s), c)
           /\ Once(s, c) /\ Head(s) = c => ~Has(Tail(s), c)
           /\ Once(s, c) /\ Head(s) # c => Once(Tail(s), c)
<1>1. /\ Head(s) \in X /\ Tail(s) \in Seq(X) /\ Len(Tail(s)) = Len(s) - 1
      /\ \A i \in 1..Len(Tail(s)) : Tail(s)[i] = s[i + 1]
  BY HeadTailProperties
<1>2. DOMAIN s = 1..Len(s) /\ Len(s) \in Nat \ {0} /\ Head(s) = s[1]
  BY EmptySeq
<1>3. DOMAIN Tail(s) = 1..(Len(s) - 1)
  BY <1>1
<1>4. \A i \in DOMAIN Tail(s) : i + 1 \in DOMAIN s /\ Tail(s)[i] = s[i + 1] /\ i + 1 # 1
  BY <1>1, <1>2, <1>3
<1>5. \A i \in DOMAIN s : i # 1 => i - 1 \in DOMAIN Tail(s) /\ Tail(s)[i - 1] = s[i]
  BY <1>1, <1>2, <1>3
<1>6. Has(s, c) <=> Head(s) = c \/ Has(Tail(s), c)
  <2>1. ASSUME Has(s, c) PROVE Head(s) = c \/ Has(Tail(s), c)
    <3>1. PICK i \in DOMAIN s : s[i] = c
      BY <2>1 DEF Has
    <3> QED
      BY <1>2, <1>5, <3>1 DEF Has
  <2>2. 1 \in DOMAIN s
    BY <1>2
  <2> QED
    BY <1>2, <1>4, <2>1, <2>2 DEF Has
<1>7. ASSUME Once(s, c), Head(s) = c PROVE ~Has(Tail(s), c)
  BY <1>2, <1>4, <1>7 DEF Has, Once
<1>8. ASSUME Once(s, c), Head(s) # c PROVE Once(Tail(s), c)
  <2>1. PICK i \in DOMAIN s : s[i] = c /\ \A j \in DOMAIN s : s[j] = c => j = i
    BY <1>8 DEF Once
  <2>2. i - 1 \in DOMAIN Tail(s) /\ Tail(s)[i - 1] = c
    BY <1>2, <1>5, <1>8, <2>1
  <2>3. ASSUME NEW j \in DOMAIN Tail(s), Tail(s)[j] = c PROVE j = i - 1
    BY <1>2, <1>3, <1>4, <2>1, <2>3
  <2> QED
    BY <2>2, <2>3 DEF Once
<1> QED
  BY <1>1, <1>6, <1>7, <1>8

-----------------------------------------------------------------------------
(* The scripts of the servers.                                               *)

LEMMA ScriptOfNone == ASSUME NEW X PROVE <<>> \in Seq(X) /\ \A c : ~Has(<<>>, c)
  BY DEF Has

LEMMA ScriptOfOne ==
    ASSUME NEW X, NEW a \in X
    PROVE  /\ <<a>> \in Seq(X)
           /\ \A c : Has(<<a>>, c) <=> c = a
           /\ Once(<<a>>, a)
  BY DEF Has, Once

LEMMA ScriptOfTwo ==
    ASSUME NEW X, NEW a \in X, NEW b \in X
    PROVE  /\ <<a, b>> \in Seq(X)
           /\ \A c : Has(<<a, b>>, c) <=> c = a \/ c = b
           /\ a # b => Once(<<a, b>>, a) /\ Once(<<a, b>>, b)
<1>1. /\ <<a, b>> \in Seq(X)
      /\ \A c : Has(<<a, b>>, c) <=> c = a \/ c = b
  BY DEF Has
<1>2. a # b => Once(<<a, b>>, a)
  <2>1. a # b => \A j \in DOMAIN <<a, b>> : <<a, b>>[j] = a => j = 1
    OBVIOUS
  <2> QED
    BY <2>1 DEF Once
<1>3. a # b => Once(<<a, b>>, b)
  <2>1. a # b => \A j \in DOMAIN <<a, b>> : <<a, b>>[j] = b => j = 2
    OBVIOUS
  <2> QED
    BY <2>1 DEF Once
<1> QED
  BY <1>1, <1>2, <1>3

LEMMA ScriptOfThree ==
    ASSUME NEW X, NEW a \in X, NEW b \in X, NEW c \in X
    PROVE  /\ <<a, b, c>> \in Seq(X)
           /\ \A d : Has(<<a, b, c>>, d) <=> d = a \/ d = b \/ d = c
  BY DEF Has

LEMMA ServerNames ==
    ASSUME NEW m \in Module
    PROVE  m \in {"s3", "sqs", "sns", "lambda", "transfer", "cognito", "dynamodb", "kms",
                  "secretsmanager"}
  BY ModulesAssumption DEF ModulesAssumption, Server

LEMMA ServerCommands ==
    /\ \A p \in Part : spawn(p) \in ServerCommand /\ stop(p) \in ServerCommand
    /\ set("RUNNING") \in ServerCommand /\ set("STOPPED") \in ServerCommand
    /\ "worker" \in Part /\ "monitoring" \in Part /\ "server" \in Part
  BY DEF ServerCommand, spawn, stop, set, Part

IsServer(x) ==
    \/ x \in {S3Server, SQSServer, SNSServer, LambdaServer, TransferServer}
    \/ x \in {CognitoServer, DynamoDbServer, KMSServer, SecretsManagerServer}

LEMMA TheServers == ASSUME NEW m \in Module PROVE IsServer(Server[m])
  BY ServerNames DEF Server, IsServer

LEMMA ServerScripts ==
    ASSUME NEW x, IsServer(x)
    PROVE  /\ x.construct \in Seq(ServerCommand)
           /\ x.initialize \in Seq(ServerCommand)
           /\ x.shutdown \in Seq(ServerCommand)
<1> USE ServerCommands, ScriptOfNone, ScriptOfOne, ScriptOfTwo, ScriptOfThree
<1>1. CASE x = S3Server
  BY <1>1 DEF S3Server
<1>2. CASE x = SQSServer
  BY <1>2 DEF SQSServer
<1>3. CASE x = SNSServer
  BY <1>3 DEF SNSServer
<1>4. CASE x = LambdaServer
  BY <1>4 DEF LambdaServer
<1>5. CASE x = TransferServer
  BY <1>5 DEF TransferServer
<1>6. CASE x = CognitoServer
  BY <1>6 DEF CognitoServer
<1>7. CASE x = DynamoDbServer
  BY <1>7 DEF DynamoDbServer
<1>8. CASE x = KMSServer
  BY <1>8 DEF KMSServer
<1>9. CASE x = SecretsManagerServer
  BY <1>9 DEF SecretsManagerServer
<1> QED
  BY <1>1, <1>2, <1>3, <1>4, <1>5, <1>6, <1>7, <1>8, <1>9 DEF IsServer

(* Constructing and initialising a server starts each of its timers once,    *)
(* besides its own thread, sets RUNNING, and stops nothing.                  *)
UpCommand == {spawn("worker"), spawn("monitoring"), set("RUNNING")}
ComesUp(x) ==
    /\ x.construct \in Seq(UpCommand) /\ x.initialize \in Seq(UpCommand)
    /\ Has(x.construct, set("RUNNING")) \/ Has(x.initialize, set("RUNNING"))
    /\ \A c \in UpCommand : ~(Has(x.construct, c) /\ Has(x.initialize, c))
    /\ \A c \in UpCommand : /\ Has(x.construct, c) => Once(x.construct, c)
                            /\ Has(x.initialize, c) => Once(x.initialize, c)

LEMMA ServersComeUp == ASSUME NEW x, IsServer(x) PROVE ComesUp(x)
<1> USE ScriptOfNone, ScriptOfOne, ScriptOfTwo
<1>0. /\ spawn("worker") # spawn("monitoring") /\ spawn("worker") # set("RUNNING")
      /\ spawn("monitoring") # set("RUNNING")
      /\ spawn("worker") \in UpCommand /\ spawn("monitoring") \in UpCommand
      /\ set("RUNNING") \in UpCommand
  BY DEF spawn, set, UpCommand
<1>1. CASE x = S3Server
  BY <1>0, <1>1 DEF S3Server, ComesUp
<1>2. CASE x = SQSServer
  BY <1>0, <1>2 DEF SQSServer, ComesUp
<1>3. CASE x = SNSServer
  BY <1>0, <1>3 DEF SNSServer, ComesUp
<1>4. CASE x = LambdaServer
  BY <1>0, <1>4 DEF LambdaServer, ComesUp
<1>5. CASE x = TransferServer
  BY <1>0, <1>5 DEF TransferServer, ComesUp
<1>6. CASE x = CognitoServer
  BY <1>0, <1>6 DEF CognitoServer, ComesUp
<1>7. CASE x = DynamoDbServer
  BY <1>0, <1>7 DEF DynamoDbServer, ComesUp
<1>8. CASE x = KMSServer
  BY <1>0, <1>8 DEF KMSServer, ComesUp
<1>9. CASE x = SecretsManagerServer
  BY <1>0, <1>9 DEF SecretsManagerServer, ComesUp
<1> QED
  BY <1>1, <1>2, <1>3, <1>4, <1>5, <1>6, <1>7, <1>8, <1>9 DEF IsServer

(* All servers but those of S3 and DynamoDB stop what they start. *)
StopsAll(x) ==
    \A p \in Part : Has(x.construct, spawn(p)) \/ Has(x.initialize, spawn(p)) =>
                       Has(x.shutdown, stop(p))

IsCarefulServer(x) ==
    \/ x \in {SQSServer, SNSServer, LambdaServer, TransferServer}
    \/ x \in {CognitoServer, KMSServer, SecretsManagerServer}

LEMMA CarefulServersStopAll ==
    ASSUME NEW x, IsCarefulServer(x)
    PROVE  StopsAll(x)
<1> USE ServerCommands, ScriptOfNone, ScriptOfOne, ScriptOfTwo, ScriptOfThree
<1>0. /\ \A p, state : spawn(p) # set(state)
      /\ \A p, q : spawn(p) = spawn(q) => stop(p) = stop(q)
  BY DEF spawn, set, stop
<1>1. CASE x = SQSServer
  BY <1>0, <1>1 DEF SQSServer, StopsAll
<1>2. CASE x = SNSServer
  BY <1>0, <1>2 DEF SNSServer, StopsAll
<1>3. CASE x = LambdaServer
  BY <1>0, <1>3 DEF LambdaServer, StopsAll
<1>4. CASE x = TransferServer
  BY <1>0, <1>4 DEF TransferServer, StopsAll
<1>5. CASE x = CognitoServer
  BY <1>0, <1>5 DEF CognitoServer, StopsAll
<1>6. CASE x = KMSServer
  BY <1>0, <1>6 DEF KMSServer, StopsAll
<1>7. CASE x = SecretsManagerServer
  BY <1>0, <1>7 DEF SecretsManagerServer, StopsAll
<1> QED
  BY <1>1, <1>2, <1>3, <1>4, <1>5, <1>6, <1>7 DEF IsCarefulServer

LEMMA ShutdownIsComplete ==
    ASSUME "s3" \notin Module, "dynamodb" \notin Module
    PROVE  CompleteShutdown
<1> SUFFICES ASSUME NEW m \in Module, NEW p \in Parts(m), p # "server"
             PROVE  p \in StopParts(m)
  BY DEF CompleteShutdown, StopParts
<1>1. IsServer(Server[m])
  BY TheServers
<1>2. IsCarefulServer(Server[m])
  BY ServerNames DEF Server, IsCarefulServer
<1>3. StopsAll(Server[m])
  BY <1>2, CarefulServersStopAll
<1>4. /\ Server[m].construct \in Seq(ServerCommand) /\ Server[m].initialize \in Seq(ServerCommand)
      /\ Server[m].shutdown \in Seq(ServerCommand)
  BY <1>1, ServerScripts
<1>5. p \in Part /\ (Has(Server[m].construct, spawn(p)) \/ Has(Server[m].initialize, spawn(p)))
  BY <1>4 DEF Parts, Part, Contains, Has
<1>6. Has(Server[m].shutdown, stop(p))
  BY <1>3, <1>5 DEF StopsAll
<1> QED
  BY <1>4, <1>5, <1>6 DEF StopParts, Contains, Has

-----------------------------------------------------------------------------
(* The scripts of the actors.                                                *)

LEMMA Prefixed == ASSUME NEW m, NEW a, NEW b PROVE <<m>> \o <<a, b>> = <<m, a, b>>
<1> DEFINE S == {m, a, b}
<1>1. <<m>> \in Seq(S) /\ <<a, b>> \in Seq(S) /\ <<m, a, b>> \in Seq(S)
  OBVIOUS
<1>2. /\ <<m>> \o <<a, b>> \in Seq(S) /\ Len(<<m>> \o <<a, b>>) = 3
      /\ \A i \in 1..3 : (<<m>> \o <<a, b>>)[i] = IF i <= 1 THEN <<m>>[i] ELSE <<a, b>>[i - 1]
  BY <1>1, ConcatProperties
<1>3. (<<m>> \o <<a, b>>)[1] = m /\ (<<m>> \o <<a, b>>)[2] = a /\ (<<m>> \o <<a, b>>)[3] = b
  BY <1>2
<1>4. \A i \in 1..3 : (<<m>> \o <<a, b>>)[i] = <<m, a, b>>[i]
  BY <1>3
<1> HIDE DEF S
<1> QED
  BY <1>1, <1>2, <1>4, SeqEqual

(* All commands of a script are about one module. *)
About(m, s) == \A i \in DOMAIN s : s[i][1] = m

LEMMA AboutConcat ==
    ASSUME NEW X, NEW s \in Seq(X), NEW t \in Seq(X), NEW m, About(m, s), About(m, t)
    PROVE  About(m, s \o t)
  BY ConcatProperties DEF About

LEMMA ForScript ==
    ASSUME NEW m \in Module, NEW s \in Seq(ServerCommand)
    PROVE  /\ For(m, s) \in Seq(Command) /\ About(m, For(m, s))
           /\ DOMAIN For(m, s) = DOMAIN s
           /\ \A i \in DOMAIN s : For(m, s)[i] = <<m, s[i][1], s[i][2]>>
           /\ \A op, arg : Has(For(m, s), <<m, op, arg>>) <=> Has(s, <<op, arg>>)
           /\ \A op, arg : Once(s, <<op, arg>>) => Once(For(m, s), <<m, op, arg>>)
<1>1. \A x \in ServerCommand : x = <<x[1], x[2]>>
  BY DEF ServerCommand
<1>2. \A i \in DOMAIN s : s[i] \in ServerCommand
  OBVIOUS
<1>3. ASSUME NEW i \in DOMAIN s PROVE For(m, s)[i] = <<m, s[i][1], s[i][2]>>
  <2>1. s[i] = <<s[i][1], s[i][2]>>
    BY <1>1, <1>2
  <2>2. <<m>> \o s[i] = <<m, s[i][1], s[i][2]>>
    BY <2>1, Prefixed
  <2> QED
    BY <2>2 DEF For
<1>4. DOMAIN For(m, s) = DOMAIN s
  BY DEF For
<1>5. \A x \in ServerCommand : <<m, x[1], x[2]>> \in Command
  BY DEF ServerCommand, Command
<1>6. For(m, s) \in Seq(Command)
  <2>1. For(m, s) = [i \in 1..Len(s) |-> <<m, s[i][1], s[i][2]>>]
    BY <1>3, <1>4 DEF For
  <2> QED
    BY <1>2, <1>5, <2>1, IsASeq
<1>7. About(m, For(m, s))
  BY <1>3, <1>4 DEF About
<1>8. ASSUME NEW op, NEW arg, NEW i \in DOMAIN s
      PROVE  For(m, s)[i] = <<m, op, arg>> <=> s[i] = <<op, arg>>
  BY <1>1, <1>2, <1>3
<1>9. ASSUME NEW op, NEW arg
      PROVE  /\ Has(For(m, s), <<m, op, arg>>) <=> Has(s, <<op, arg>>)
             /\ Once(s, <<op, arg>>) => Once(For(m, s), <<m, op, arg>>)
  <2>1. \A i \in DOMAIN s : For(m, s)[i] = <<m, op, arg>> <=> s[i] = <<op, arg>>
    BY <1>8
  <2> QED
    BY <1>4, <2>1, Zenon DEF Has, Once
<1> QED
  BY <1>3, <1>4, <1>6, <1>7, <1>9

LEMMA SingleCommand ==
    ASSUME NEW m, NEW c \in Command, c[1] = m
    PROVE  /\ <<c>> \in Seq(Command) /\ About(m, <<c>>)
           /\ (\A d : Has(<<c>>, d) <=> d = c) /\ Once(<<c>>, c)
  BY ScriptOfOne DEF About

LEMMA StartScript ==
    ASSUME NEW m \in Module
    PROVE  Start(m) \in Seq(Command) /\ About(m, Start(m))
<1>1. Initialize(m) \in Seq(Command) /\ About(m, Initialize(m))
  BY TheServers, ServerScripts, ForScript DEF Initialize
<1>2. <<<<m, "spawn", "server">>>> \in Seq(Command) /\ About(m, <<<<m, "spawn", "server">>>>)
  BY SingleCommand DEF Command, Part
<1> QED
  BY <1>1, <1>2, ConcatProperties, AboutConcat DEF Start

(* A stop names all the timers that it will stop. *)
LEMMA HaltScript ==
    ASSUME NEW m \in Module
    PROVE  /\ Halt(m) \in Seq(Command) /\ About(m, Halt(m))
           /\ \A p \in StopParts(m) : Has(Halt(m), <<m, "stop", p>>)
<1> DEFINE a == <<<<m, "state", "STOPPED">>>>
           z == <<<<m, "stop", "server">>>>
<1>1. /\ Server[m].shutdown \in Seq(ServerCommand)
      /\ Shutdown(m) \in Seq(Command) /\ About(m, Shutdown(m))
      /\ \A p : Has(Shutdown(m), <<m, "stop", p>>) <=> Has(Server[m].shutdown, <<"stop", p>>)
  BY TheServers, ServerScripts, ForScript DEF Shutdown
<1>2. a \in Seq(Command) /\ About(m, a)
  BY SingleCommand DEF Command
<1>3. z \in Seq(Command) /\ About(m, z) /\ Has(z, <<m, "stop", "server">>)
  BY SingleCommand DEF Command, Part
<1> HIDE DEF a, z
<1>4. Stop(m) = Shutdown(m) \o z /\ Halt(m) = a \o Stop(m)
  BY DEF Stop, Halt, a, z
<1>5. Stop(m) \in Seq(Command) /\ About(m, Stop(m)) /\ Halt(m) \in Seq(Command) /\ About(m, Halt(m))
  BY <1>1, <1>2, <1>3, <1>4, ConcatProperties, AboutConcat
<1>6. \A c : Has(Halt(m), c) <=> Has(a, c) \/ Has(Shutdown(m), c) \/ Has(z, c)
  <2>1. \A c : Has(Stop(m), c) <=> Has(Shutdown(m), c) \/ Has(z, c)
    BY <1>1, <1>3, <1>4, HasConcat
  <2>2. \A c : Has(Halt(m), c) <=> Has(a, c) \/ Has(Stop(m), c)
    BY <1>2, <1>4, <1>5, HasConcat
  <2> QED
    BY <2>1, <2>2
<1>7. ASSUME NEW p \in StopParts(m) PROVE Has(Halt(m), <<m, "stop", p>>)
  <2>1. p = "server" \/ Has(Server[m].shutdown, <<"stop", p>>)
    BY <1>1 DEF StopParts, Contains, Has, stop
  <2> QED
    BY <1>1, <1>3, <1>6, <2>1
<1> QED
  BY <1>5, <1>7

(* Bringing up a module starts all its timers, each once. *)
Upward(s) == \A i \in DOMAIN s : s[i][2] = "spawn" \/ (s[i][2] = "state" /\ s[i][3] = "RUNNING")

LEMMA UpwardConcat ==
    ASSUME NEW X, NEW s \in Seq(X), NEW t \in Seq(X), Upward(s), Upward(t)
    PROVE  Upward(s \o t)
  BY ConcatProperties DEF Upward

LEMMA UpwardFor ==
    ASSUME NEW m \in Module, NEW s \in Seq(ServerCommand), s \in Seq(UpCommand)
    PROVE  Upward(For(m, s)) /\ ~Has(s, spawn("server"))
<1>1. ASSUME NEW x \in UpCommand
      PROVE  (x[1] = "spawn" /\ x[2] # "server") \/ (x[1] = "state" /\ x[2] = "RUNNING")
  <2>1. x = <<"spawn", "worker">> \/ x = <<"spawn", "monitoring">> \/ x = <<"state", "RUNNING">>
    BY DEF UpCommand, spawn, set
  <2> QED
    BY <2>1
<1>2. \A i \in DOMAIN s : s[i] \in UpCommand
  OBVIOUS
<1>3. Upward(For(m, s))
  <2>1. DOMAIN For(m, s) = DOMAIN s /\ \A i \in DOMAIN s : For(m, s)[i] = <<m, s[i][1], s[i][2]>>
    BY ForScript
  <2> QED
    BY <1>1, <1>2, <2>1 DEF Upward
<1>4. ~Has(s, spawn("server"))
  BY <1>1, <1>2 DEF Has, spawn
<1> QED
  BY <1>3, <1>4

LEMMA BootScript ==
    ASSUME NEW m \in Module
    PROVE  LET s == For(m, Server[m].construct) \o Start(m)
           IN  /\ s \in Seq(Command) /\ About(m, s) /\ Upward(s)
               /\ Has(s, <<m, "state", "RUNNING">>)
               /\ \A p \in Parts(m) : Once(s, spawning(m, p))
<1> DEFINE con == Server[m].construct
           ini == Server[m].initialize
           C == For(m, con)
           I == For(m, ini)
           z == <<<<m, "spawn", "server">>>>
           s == C \o Start(m)
<1>1. con \in Seq(ServerCommand) /\ ini \in Seq(ServerCommand)
  BY TheServers, ServerScripts
<1>2. ComesUp(Server[m])
  BY TheServers, ServersComeUp
<1>3. con \in Seq(UpCommand) /\ ini \in Seq(UpCommand)
  BY <1>2 DEF ComesUp
<1>4. /\ C \in Seq(Command) /\ About(m, C) /\ Upward(C) /\ ~Has(con, spawn("server"))
      /\ I \in Seq(Command) /\ About(m, I) /\ Upward(I) /\ ~Has(ini, spawn("server"))
  BY <1>1, <1>3, ForScript, UpwardFor
<1>5. /\ z \in Seq(Command) /\ About(m, z) /\ Upward(z)
      /\ (\A d : Has(z, d) <=> d = spawning(m, "server")) /\ Once(z, spawning(m, "server"))
  BY SingleCommand DEF Command, Part, Upward, spawning
<1>6. \A op, arg : /\ Has(C, <<m, op, arg>>) <=> Has(con, <<op, arg>>)
                   /\ Once(con, <<op, arg>>) => Once(C, <<m, op, arg>>)
                   /\ Has(I, <<m, op, arg>>) <=> Has(ini, <<op, arg>>)
                   /\ Once(ini, <<op, arg>>) => Once(I, <<m, op, arg>>)
  BY <1>1, ForScript
<1>7. Start(m) = I \o z
  BY DEF Start, Initialize
<1> HIDE DEF C, I, z
<1>8. Start(m) \in Seq(Command) /\ About(m, Start(m)) /\ Upward(Start(m))
      /\ \A d : Has(Start(m), d) <=> Has(I, d) \/ Has(z, d)
  BY <1>4, <1>5, <1>7, AboutConcat, UpwardConcat, HasConcat
<1>9. s \in Seq(Command) /\ About(m, s) /\ Upward(s)
      /\ \A d : Has(s, d) <=> Has(C, d) \/ Has(Start(m), d)
  BY <1>4, <1>8, AboutConcat, UpwardConcat, HasConcat
<1>10. Has(s, <<m, "state", "RUNNING">>)
  <2>1. Has(con, <<"state", "RUNNING">>) \/ Has(ini, <<"state", "RUNNING">>)
    BY <1>2 DEF ComesUp, set
  <2>2. Has(C, <<m, "state", "RUNNING">>) \/ Has(I, <<m, "state", "RUNNING">>)
    BY <1>6, <2>1
  <2> QED
    BY <1>8, <1>9, <2>2
<1>11. ASSUME NEW p \in Parts(m)
       PROVE  Once(s, spawning(m, p))
  <2>0. spawning(m, p) = <<m, "spawn", p>> /\ spawn(p) = <<"spawn", p>>
    BY DEF spawning, spawn
  <2>1. CASE p = "server"
    <3>1. ~Has(C, spawning(m, p)) /\ ~Has(I, spawning(m, p)) /\ Once(z, spawning(m, p))
      BY <1>4, <1>5, <1>6, <2>0, <2>1
    <3>2. Once(Start(m), spawning(m, p))
      BY <1>4, <1>5, <1>7, <3>1, OnceConcat
    <3> QED
      BY <1>4, <1>8, <3>1, <3>2, OnceConcat
  <2>2. CASE p # "server"
    <3>1. spawn(p) \in UpCommand /\ (Has(con, spawn(p)) \/ Has(ini, spawn(p)))
      BY <1>1, <2>2 DEF Parts, Part, UpCommand, Contains, Has
    <3>2. \/ Once(con, spawn(p)) /\ ~Has(ini, spawn(p))
          \/ ~Has(con, spawn(p)) /\ Once(ini, spawn(p))
      BY <1>2, <3>1 DEF ComesUp
    <3>3. ~Has(z, spawning(m, p))
      BY <1>5, <2>2 DEF spawning
    <3>4. CASE Once(con, spawn(p)) /\ ~Has(ini, spawn(p))
      <4>1. Once(C, spawning(m, p)) /\ ~Has(I, spawning(m, p))
        BY <1>6, <2>0, <3>4
      <4> QED
        BY <1>4, <1>8, <3>3, <4>1, OnceConcat
    <3>5. CASE ~Has(con, spawn(p)) /\ Once(ini, spawn(p))
      <4>1. ~Has(C, spawning(m, p)) /\ Once(I, spawning(m, p))
        BY <1>6, <2>0, <3>5
      <4>2. Once(Start(m), spawning(m, p))
        BY <1>4, <1>5, <1>7, <3>3, <4>1, OnceConcat
      <4> QED
        BY <1>4, <1>8, <4>1, <4>2, OnceConcat
    <3> QED
      BY <3>2, <3>4, <3>5
  <2> QED
    BY <2>1, <2>2
<1> QED
  BY <1>9, <1>10, <1>11 DEF C

(* One command for each module of a list. *)
LEMMA ForEachScript ==
    ASSUME NEW list \in Seq(Module), NEW op \in {"boot", "start", "halt", "close"}
    PROVE  /\ ForEach(list, op) \in Seq(Command)
           /\ DOMAIN ForEach(list, op) = DOMAIN list
           /\ \A i \in DOMAIN list : ForEach(list, op)[i] = <<list[i], op, "module">>
<1>1. \A i \in 1..Len(list) : <<list[i], op, "module">> \in Command
  BY DEF Command
<1>2. ForEach(list, op) = [i \in 1..Len(list) |-> <<list[i], op, "module">>]
  BY DEF ForEach
<1>3. ForEach(list, op) \in Seq(Command)
  BY <1>1, <1>2, IsASeq
<1> QED
  BY <1>3 DEF ForEach

LEMMA RequestScript ==
    ASSUME NEW kind \in Kind, NEW list \in Seq(Module)
    PROVE  /\ Request(kind, list) \in Seq(Command)
           /\ \A i \in DOMAIN Request(kind, list) : Request(kind, list)[i][2] \in {"start", "halt"}
<1>1. \A op \in {"start", "halt"} :
          /\ ForEach(list, op) \in Seq(Command)
          /\ \A i \in DOMAIN ForEach(list, op) : ForEach(list, op)[i][2] \in {"start", "halt"}
  BY ForEachScript
<1>2. LET s == ForEach(list, "halt") \o ForEach(list, "start")
      IN  s \in Seq(Command) /\ \A i \in DOMAIN s : s[i][2] \in {"start", "halt"}
  BY <1>1, ConcatProperties
<1> QED
  BY <1>1, <1>2 DEF Request, Kind

(* A set of modules in some order: each of them once. *)
LEMMA Orders ==
    ASSUME NEW S \in SUBSET Module, NEW modules \in SetToSeqs(S)
    PROVE  /\ modules \in Seq(Module)
           /\ \A m \in S : \E i \in DOMAIN modules :
                  modules[i] = m /\ \A j \in DOMAIN modules : modules[j] = m => j = i
<1> DEFINE n == Cardinality(S)
<1>1. IsFiniteSet(Module)
  <2>1. IsFiniteSet({}) /\ \A T, x : IsFiniteSet(T) => IsFiniteSet(T \cup {x})
    BY FS_EmptySet, FS_AddElement
  <2>2. IsFiniteSet({} \cup {"s3"} \cup {"sqs"} \cup {"sns"} \cup {"lambda"} \cup {"transfer"}
                       \cup {"cognito"} \cup {"dynamodb"} \cup {"kms"} \cup {"secretsmanager"})
    BY <2>1
  <2>3. Module \in SUBSET ({} \cup {"s3"} \cup {"sqs"} \cup {"sns"} \cup {"lambda"} \cup {"transfer"}
                       \cup {"cognito"} \cup {"dynamodb"} \cup {"kms"} \cup {"secretsmanager"})
    BY ServerNames
  <2> QED
    BY <2>2, <2>3, FS_Subset
<1>2. IsFiniteSet(S) /\ n \in Nat
  BY <1>1, FS_Subset, FS_CardinalityType
<1>3. modules \in [1..n -> S] /\ \A i, j \in 1..n : i # j => modules[i] # modules[j]
  BY DEF SetToSeqs
<1>4. modules \in Injection(1..n, S)
  BY <1>3 DEF Injection, IsInjective
<1>5. IsFiniteSet(1..n) /\ Cardinality(1..n) = n
  BY <1>2, FS_Interval
<1>6. modules \in Surjection(1..n, S)
  BY <1>2, <1>4, <1>5, FS_Injection
<1>7. \A m \in S : \E i \in 1..n : modules[i] = m
  BY <1>6 DEF Surjection
<1>8. modules \in Seq(Module)
  BY <1>2, <1>3
<1> QED
  BY <1>3, <1>7, <1>8

-----------------------------------------------------------------------------
(* What a step of an actor does.                                             *)

Carries(a, c) == todo[a] # <<>> /\ Head(todo[a]) = c
Goes(a, new)  == todo' = [todo EXCEPT ![a] = new \o Tail(todo[a])]
GoesOn(a)     == todo' = [todo EXCEPT ![a] = Tail(todo[a])]

BootStep(a, m) ==
    /\ Carries(a, <<m, "boot", "module">>)
    /\ Goes(a, For(m, Server[m].construct) \o Start(m))
    /\ UNCHANGED <<row, stopped, threads>>
StartStep(a, m) ==
    /\ Carries(a, <<m, "start", "module">>)
    /\ \E new \in Seq(Command) : /\ About(m, new) /\ Goes(a, new)
                                 /\ row[m].state = "RUNNING" => new = <<>>
    /\ UNCHANGED <<row, stopped, threads>>
HaltStep(a, m) ==
    /\ Carries(a, <<m, "halt", "module">>)
    /\ Goes(a, IF row[m].state = "RUNNING" THEN Halt(m) ELSE <<>>)
    /\ UNCHANGED <<row, stopped, threads>>
CloseStep(a, m) ==
    /\ Carries(a, <<m, "close", "module">>)
    /\ Goes(a, Halt(m))
    /\ UNCHANGED <<row, stopped, threads>>
StateStep(a, m, state) ==
    /\ Carries(a, <<m, "state", state>>)
    /\ row' = [row EXCEPT ![m].state = state]
    /\ GoesOn(a)
    /\ UNCHANGED <<stopped, threads>>
SpawnStep(a, m, p) ==
    /\ Carries(a, <<m, "spawn", p>>)
    /\ threads' = [threads EXCEPT ![<<m, p>>]["sleep"] = @ + 1]
    /\ GoesOn(a)
    /\ UNCHANGED <<row, stopped>>
StopStep(a, m, p) ==
    /\ Carries(a, <<m, "stop", p>>)
    /\ stopped' = [stopped EXCEPT ![<<m, p>>] = TRUE]
    /\ GoesOn(a)
    /\ UNCHANGED <<row, threads>>

LEMMA StepCases ==
    ASSUME TypeInv, NEW a \in Actor, Step(a)
    PROVE  /\ UNCHANGED <<phase, requests>>
           /\ \E m \in Module :
                 \/ BootStep(a, m) \/ StartStep(a, m) \/ HaltStep(a, m) \/ CloseStep(a, m)
                 \/ \E state \in {"RUNNING", "STOPPED"} : StateStep(a, m, state)
                 \/ \E p \in Part : SpawnStep(a, m, p) \/ StopStep(a, m, p)
<1> DEFINE h == Head(todo[a])
           m == h[1]
           rest == Tail(todo[a])
<1>1. todo[a] \in Seq(Command) /\ todo[a] # <<>> /\ h \in Command
  BY HeadTailProperties DEF TypeInv, TypeOK, Step, Idle
<1>2. /\ h = <<m, h[2], h[3]>> /\ m \in Module
      /\ h[2] \in {"boot", "start", "halt", "close"} => h[3] = "module"
      /\ h[2] = "state" => h[3] \in {"RUNNING", "STOPPED"}
      /\ h[2] \in {"spawn", "stop"} => h[3] \in Part
  BY <1>1 DEF Command
<1>3. \A c : Carries(a, c) <=> c = h
  BY <1>1 DEF Carries
<1>4. /\ UNCHANGED <<phase, requests>>
      /\ \/ h[2] = "boot"  /\ BootModule(a, m, rest)
         \/ h[2] = "start" /\ StartModule(a, m, rest)
         \/ h[2] = "halt"  /\ StopModule(a, m, rest)
         \/ h[2] = "close" /\ CloseModule(a, m, rest)
         \/ h[2] = "state" /\ SetState(a, m, h[3], rest)
         \/ h[2] = "spawn" /\ Spawn(a, <<m, h[3]>>, rest)
         \/ h[2] = "stop"  /\ RequestStop(a, <<m, h[3]>>, rest)
  BY DEF Step
<1> HIDE DEF h
<1>5. CASE h[2] = "boot"  /\ BootModule(a, m, rest)
  <2>1. IsActive(m)
    BY <1>1, <1>2 DEF TypeInv, IsActive, Idle
  <2>2. BootStep(a, m)
    BY <1>2, <1>3, <1>5, <2>1 DEF BootModule, BootStep, Goes
  <2> QED
    BY <1>2, <1>4, <2>2
<1>6. CASE h[2] = "start" /\ StartModule(a, m, rest)
  <2> DEFINE new == IF NeedsStart(m) THEN <<<<m, "state", "RUNNING">>>> \o StartBranch(m) ELSE <<>>
  <2>1. StartBranch(m) \in Seq(Command) /\ About(m, StartBranch(m))
    BY <1>2, StartScript DEF StartBranch, About
  <2>2. <<<<m, "state", "RUNNING">>>> \in Seq(Command) /\ About(m, <<<<m, "state", "RUNNING">>>>)
    BY <1>2, SingleCommand DEF Command
  <2>3. new \in Seq(Command) /\ About(m, new)
    BY <2>1, <2>2, ConcatProperties, AboutConcat DEF About
  <2>4. row[m].state = "RUNNING" => new = <<>>
    BY DEF NeedsStart
  <2>5. Goes(a, new) /\ UNCHANGED <<row, stopped, threads>>
    BY <1>6 DEF StartModule, Goes
  <2> HIDE DEF new
  <2>6. StartStep(a, m)
    BY <1>2, <1>3, <1>6, <2>3, <2>4, <2>5 DEF StartStep
  <2> QED
    BY <1>2, <1>4, <2>6
<1>7. CASE h[2] = "halt"  /\ StopModule(a, m, rest)
  <2>1. HaltStep(a, m)
    BY <1>2, <1>3, <1>7 DEF StopModule, HaltStep, Goes
  <2> QED
    BY <1>2, <1>4, <2>1
<1>8. CASE h[2] = "close" /\ CloseModule(a, m, rest)
  <2>1. CloseStep(a, m)
    BY <1>2, <1>3, <1>8 DEF CloseModule, CloseStep, Goes
  <2> QED
    BY <1>2, <1>4, <2>1
<1>9. CASE h[2] = "state" /\ SetState(a, m, h[3], rest)
  <2>1. StateStep(a, m, h[3])
    BY <1>2, <1>3, <1>9 DEF SetState, StateStep, GoesOn
  <2> QED
    BY <1>2, <1>4, <1>9, <2>1
<1>10. CASE h[2] = "spawn" /\ Spawn(a, <<m, h[3]>>, rest)
  <2>1. SpawnStep(a, m, h[3])
    BY <1>2, <1>3, <1>10 DEF Spawn, SpawnStep, GoesOn
  <2> QED
    BY <1>2, <1>4, <1>10, <2>1
<1>11. CASE h[2] = "stop"  /\ RequestStop(a, <<m, h[3]>>, rest)
  <2>1. StopStep(a, m, h[3])
    BY <1>2, <1>3, <1>11 DEF RequestStop, StopStep, GoesOn
  <2> QED
    BY <1>2, <1>4, <1>11, <2>1
<1> QED
  BY <1>4, <1>5, <1>6, <1>7, <1>8, <1>9, <1>10, <1>11

-----------------------------------------------------------------------------
(* Types.                                                                    *)

(* A step that gives one actor another script. *)
LEMMA ScriptStep ==
    ASSUME TypeInv, NEW a \in Actor, todo[a] # <<>>,
           Goes(a, <<>>) \/ GoesOn(a) \/ \E new \in Seq(Command) : Goes(a, new)
    PROVE  todo' \in [Actor -> Seq(Command)]
<1>1. todo \in [Actor -> Seq(Command)] /\ Tail(todo[a]) \in Seq(Command) /\ <<>> \in Seq(Command)
  BY HeadTailProperties DEF TypeInv, TypeOK
<1>2. \E s \in Seq(Command) : todo' = [todo EXCEPT ![a] = s]
  BY <1>1, ConcatProperties DEF Goes, GoesOn
<1> QED
  BY <1>1, <1>2

LEMMA StepType ==
    ASSUME TypeInv, NEW a \in Actor, Step(a)
    PROVE  TypeInv'
<1>1. UNCHANGED <<phase, requests>> /\ todo[a] # <<>> /\ phase # "init"
  BY StepCases DEF TypeInv, Step, Idle
<1>2. PICK m \in Module :
          \/ BootStep(a, m) \/ StartStep(a, m) \/ HaltStep(a, m) \/ CloseStep(a, m)
          \/ \E state \in {"RUNNING", "STOPPED"} : StateStep(a, m, state)
          \/ \E p \in Part : SpawnStep(a, m, p) \/ StopStep(a, m, p)
  BY StepCases
<1>3. todo' \in [Actor -> Seq(Command)]
  <2>1. BootStep(a, m) => \E new \in Seq(Command) : Goes(a, new)
    BY BootScript DEF BootStep
  <2>2. StartStep(a, m) => \E new \in Seq(Command) : Goes(a, new)
    BY DEF StartStep
  <2>3. HaltStep(a, m) => (\E new \in Seq(Command) : Goes(a, new)) \/ Goes(a, <<>>)
    BY HaltScript DEF HaltStep
  <2>4. CloseStep(a, m) => \E new \in Seq(Command) : Goes(a, new)
    BY HaltScript DEF CloseStep
  <2>5. \/ \E state \in {"RUNNING", "STOPPED"} : StateStep(a, m, state)
        \/ \E p \in Part : SpawnStep(a, m, p) \/ StopStep(a, m, p)
        => GoesOn(a)
    BY DEF StateStep, SpawnStep, StopStep
  <2> QED
    BY <1>1, <1>2, <2>1, <2>2, <2>3, <2>4, <2>5, ScriptStep
<1>5. CASE UNCHANGED <<row, stopped, threads>>
  BY <1>1, <1>3, <1>5 DEF TypeInv, TypeOK
<1>6. CASE \E state \in {"RUNNING", "STOPPED"} : StateStep(a, m, state)
  <2>1. PICK state \in {"RUNNING", "STOPPED"} : StateStep(a, m, state)
    BY <1>6
  <2>2. /\ row' = [row EXCEPT ![m].state = state] /\ UNCHANGED <<stopped, threads>>
        /\ row \in [Module -> [state : {"none", "STOPPED", "RUNNING"}, status : {"none", "ACTIVE"}]]
    BY <2>1 DEF StateStep, TypeInv, TypeOK
  <2>3. row' \in [Module -> [state : {"none", "STOPPED", "RUNNING"}, status : {"none", "ACTIVE"}]]
    BY <2>2
  <2>4. \A n \in Module : row'[n].state # "none" /\ row'[n].status = "ACTIVE"
    BY <1>1, <2>2 DEF TypeInv
  <2> QED
    BY <1>1, <1>3, <2>2, <2>3, <2>4 DEF TypeInv, TypeOK
<1>7. CASE \E p \in Part : SpawnStep(a, m, p)
  <2>1. PICK p \in Part : SpawnStep(a, m, p)
    BY <1>7
  <2>2. threads \in [Timer -> [Stage -> Nat]] /\ <<m, p>> \in Timer
    BY DEF TypeInv, TypeOK, Timer
  <2>3. /\ threads' = [threads EXCEPT ![<<m, p>>] = [threads[<<m, p>>] EXCEPT !["sleep"] = @ + 1]]
        /\ UNCHANGED <<row, stopped>>
    BY <2>1, <2>2 DEF SpawnStep
  <2>4. [threads[<<m, p>>] EXCEPT !["sleep"] = @ + 1] \in [Stage -> Nat]
    BY <2>2 DEF Stage
  <2>5. threads' \in [Timer -> [Stage -> Nat]]
    BY <2>2, <2>3, <2>4
  <2> QED
    BY <1>1, <1>3, <2>3, <2>5 DEF TypeInv, TypeOK
<1>8. CASE \E p \in Part : StopStep(a, m, p)
  <2>1. stopped' \in [Timer -> BOOLEAN] /\ UNCHANGED <<row, threads>>
    BY <1>8 DEF StopStep, TypeInv, TypeOK, Timer
  <2> QED
    BY <1>1, <1>3, <2>1 DEF TypeInv, TypeOK
<1> QED
  BY <1>2, <1>5, <1>6, <1>7, <1>8 DEF BootStep, StartStep, HaltStep, CloseStep

(* A step of a timer's thread; its thread may end, if the timer is stopped.  *)
TimerStep(t) == End(t) \/ Awake(t) \/ Run(t) \/ RunEnds(t)

LEMMA TimerSteps ==
    ASSUME TypeInv, NEW t \in Timer, TimerStep(t)
    PROVE  /\ UNCHANGED <<row, stopped, todo, phase, requests>>
           /\ threads' \in [Timer -> [Stage -> Nat]]
           /\ \A u \in Timer : ~stopped[u] => Total(u)' = Total(u)
<1>1. threads \in [Timer -> [Stage -> Nat]]
  BY DEF TypeInv, TypeOK
<1>2. CASE End(t)
  <2>1. threads[t]["sleep"] > 0 /\ stopped[t] /\ threads' = [threads EXCEPT ![t]["sleep"] = @ - 1]
    BY <1>2 DEF End, StopSeen
  <2>2. threads' \in [Timer -> [Stage -> Nat]]
    BY <1>1, <2>1 DEF Stage
  <2>3. \A u \in Timer : ~stopped[u] => threads'[u] = threads[u]
    BY <1>1, <2>1
  <2> QED
    BY <1>2, <2>2, <2>3 DEF End, Total
<1>3. ASSUME NEW x \in Stage, NEW y \in Stage, x # y, threads[t][x] > 0, threads' = move(t, x, y)
      PROVE  /\ threads' \in [Timer -> [Stage -> Nat]]
             /\ \A u \in Timer : Total(u)' = Total(u)
  <2>1. threads' = [threads EXCEPT ![t] = [threads[t] EXCEPT ![x] = @ - 1, ![y] = @ + 1]]
    BY <1>1, <1>3 DEF move
  <2>2. [threads[t] EXCEPT ![x] = @ - 1, ![y] = @ + 1] \in [Stage -> Nat]
    BY <1>1, <1>3
  <2>3. threads' \in [Timer -> [Stage -> Nat]]
    BY <1>1, <2>1, <2>2
  <2>4. \A u \in Timer : u # t => threads'[u] = threads[u]
    BY <1>1, <2>1
  <2>5. threads'[t][x] = threads[t][x] - 1 /\ threads'[t][y] = threads[t][y] + 1
        /\ \A z \in Stage : z # x /\ z # y => threads'[t][z] = threads[t][z]
    BY <1>1, <1>3, <2>1
  <2>6. Total(t)' = Total(t)
    BY <1>1, <1>3, <2>5 DEF Total, Stage
  <2> QED
    BY <2>3, <2>4, <2>6 DEF Total
<1>4. CASE Awake(t)
  BY <1>3, <1>4 DEF Awake, Stage
<1>5. CASE Run(t)
  BY <1>3, <1>5 DEF Run, Stage
<1>6. CASE RunEnds(t)
  BY <1>3, <1>6 DEF RunEnds, Stage
<1> QED
  BY <1>2, <1>4, <1>5, <1>6 DEF TimerStep

LEMMA InitType == Init => TypeInv
<1>1. <<>> \in Seq(Command)
  OBVIOUS
<1> QED
  BY <1>1, ModulesAssumption DEF Init, TypeInv, TypeOK, Timer, Stage, Idle, ModulesAssumption

LEMMA NextType == TypeInv /\ [Next]_vars => TypeInv'
<1> SUFFICES ASSUME TypeInv, [Next]_vars PROVE TypeInv'
  OBVIOUS
<1>1. CASE UNCHANGED vars
  BY <1>1 DEF vars, TypeInv, TypeOK, Idle
<1>2. CASE Boot
  <2>1. PICK modules \in SetToSeqs(Module) :
            todo' = [todo EXCEPT !["manager"] = ForEach(modules, "boot")]
    BY <1>2 DEF Boot
  <2>2. ForEach(modules, "boot") \in Seq(Command)
    BY Orders, ForEachScript
  <2>3. todo' \in [Actor -> Seq(Command)]
    BY <2>1, <2>2 DEF TypeInv, TypeOK
  <2> QED
    BY <1>2, <2>3 DEF Boot, StatusAtBoot, TypeInv, TypeOK
<1>3. CASE Serve \/ Leave
  BY <1>3 DEF Serve, Leave, TypeInv, TypeOK
<1>4. CASE Signal
  <2>1. PICK modules \in SetToSeqs({m \in Module : row[m].state = "RUNNING"}) :
            todo' = [todo EXCEPT !["manager"] = ForEach(modules, "close")]
    BY <1>4 DEF Signal
  <2>2. ForEach(modules, "close") \in Seq(Command)
    BY Orders, ForEachScript
  <2>3. todo' \in [Actor -> Seq(Command)]
    BY <2>1, <2>2 DEF TypeInv, TypeOK
  <2> QED
    BY <1>4, <2>3 DEF Signal, TypeInv, TypeOK
<1>5. ASSUME NEW c \in Client, Accept(c) PROVE TypeInv'
  <2>1. PICK kind \in Kind, list \in RequestLists : todo' = [todo EXCEPT ![c] = Request(kind, list)]
    BY <1>5 DEF Accept
  <2>2. Request(kind, list) \in Seq(Command)
    BY RequestScript, ModulesAssumption DEF ModulesAssumption
  <2>3. todo' \in [Actor -> Seq(Command)]
    BY <2>1, <2>2 DEF TypeInv, TypeOK
  <2>5. requests' \in 0..MaxRequests
    BY <1>5, ModulesAssumption DEF Accept, TypeInv, TypeOK, ModulesAssumption
  <2> QED
    BY <1>5, <2>3, <2>5 DEF Accept, TypeInv, TypeOK
<1>6. ASSUME NEW a \in Actor, Step(a) PROVE TypeInv'
  BY <1>6, StepType
<1>7. ASSUME NEW t \in Timer, TimerStep(t) PROVE TypeInv'
  <2>1. UNCHANGED <<row, stopped, todo, phase, requests>> /\ threads' \in [Timer -> [Stage -> Nat]]
    BY <1>7, TimerSteps
  <2> QED
    BY <2>1 DEF TypeInv, TypeOK, Idle
<1> QED
  BY <1>1, <1>2, <1>3, <1>4, <1>5, <1>6, <1>7 DEF Next, TimerStep

(* Rows, timers, threads and the commands of all actors keep their types     *)
(* (ModuleService, Timer, Manager).                                          *)
THEOREM TypeCorrect == Spec => []TypeOK
<1>1. TypeInv => TypeOK
  BY DEF TypeInv
<1> QED
  BY <1>1, InitType, NextType, PTL DEF Spec

-----------------------------------------------------------------------------
(* The boot.                                                                 *)

(* A step of an actor leaves the commands about other modules as they are.   *)
Keeps(n, s, t) ==
    /\ \A op, arg : /\ Has(t, <<n, op, arg>>) <=> Has(s, <<n, op, arg>>)
                    /\ Once(s, <<n, op, arg>>) => Once(t, <<n, op, arg>>)
    /\ \A i \in DOMAIN t : t[i][1] = n => \E j \in DOMAIN s : s[j] = t[i]

LEMMA OthersStay ==
    ASSUME NEW s \in Seq(Command), s # <<>>, NEW new \in Seq(Command),
           NEW m, About(m, new), Head(s)[1] = m, NEW n, n # m
    PROVE  Keeps(n, s, new \o Tail(s))
<1> DEFINE t == new \o Tail(s)
<1>0. t = new \o Tail(s)
  OBVIOUS
<1> HIDE DEF t
<1>1. Tail(s) \in Seq(Command)
  BY HeadTailProperties
<1>2. ASSUME NEW op, NEW arg
      PROVE  /\ Has(t, <<n, op, arg>>) <=> Has(s, <<n, op, arg>>)
             /\ Once(s, <<n, op, arg>>) => Once(t, <<n, op, arg>>)
  <2> DEFINE c == <<n, op, arg>>
  <2>1. c[1] = n
    OBVIOUS
  <2> HIDE DEF c
  <2>2. Head(s) # c /\ ~Has(new, c)
    BY <2>1 DEF About, Has
  <2>3. /\ Has(s, c) <=> Has(Tail(s), c)
        /\ Once(s, c) => Once(Tail(s), c)
    BY <2>2, HeadAndTail
  <2>4. /\ Has(t, c) <=> Has(s, c)
        /\ Once(s, c) => Once(t, c)
    BY <1>0, <1>1, <2>2, <2>3, HasConcat, OnceConcat
  <2> QED
    BY <2>4 DEF c
<1>3. ASSUME NEW i \in DOMAIN t, t[i][1] = n
      PROVE  \E j \in DOMAIN s : s[j] = t[i]
  <2>1. Has(t, t[i]) /\ ~Has(new, t[i])
    BY <1>3 DEF Has, About
  <2>2. Has(Tail(s), t[i])
    BY <1>0, <1>1, <2>1, HasConcat
  <2>3. Has(s, t[i])
    BY <2>2, HeadAndTail
  <2> QED
    BY <2>3 DEF Has
<1> QED
  BY <1>2, <1>3 DEF Keeps, t

(* What is left after one command was there before. *)
LEMMA RestStays ==
    ASSUME NEW s \in Seq(Command), s # <<>>
    PROVE  \A i \in DOMAIN Tail(s) : \E j \in DOMAIN s : s[j] = Tail(s)[i]
<1> SUFFICES ASSUME NEW i \in DOMAIN Tail(s) PROVE Has(s, Tail(s)[i])
  BY DEF Has
<1>1. Has(Tail(s), Tail(s)[i])
  BY DEF Has
<1> QED
  BY <1>1, HeadAndTail

LEMMA BootBegins ==
    ASSUME TypeInv, BootInv, Boot
    PROVE  BootInv'
<1>1. PICK modules \in SetToSeqs(Module) :
          todo' = [todo EXCEPT !["manager"] = ForEach(modules, "boot")]
  BY DEF Boot
<1> DEFINE s == ForEach(modules, "boot")
<1>2. /\ DOMAIN s = DOMAIN modules
      /\ \A i \in DOMAIN modules : s[i] = <<modules[i], "boot", "module">>
  BY Orders, ForEachScript
<1>3. \A m \in Module : \E i \in DOMAIN modules :
          modules[i] = m /\ \A j \in DOMAIN modules : modules[j] = m => j = i
  BY Orders
<1>4. todo'["manager"] = s /\ \A c \in Client : todo'[c] = todo[c]
  BY <1>1, ModulesAssumption DEF TypeInv, TypeOK, Actor, ModulesAssumption
<1> HIDE DEF s
<1>5. ASSUME NEW m \in Module PROVE Unbooted(m)'
  <2>1. Once(s, <<m, "boot", "module">>)
    BY <1>2, <1>3 DEF Once
  <2>2. \A i \in DOMAIN s : s[i][1] = m => s[i] = <<m, "boot", "module">>
    BY <1>2
  <2>3. \A p \in Part : Total(<<m, p>>)' = 0
    BY DEF Boot, BootInv, Timer, Total
  <2> QED
    BY <1>4, <2>1, <2>2, <2>3 DEF Unbooted
<1>6. \A i \in DOMAIN s : s[i][2] = "boot"
  BY <1>2
<1>7. /\ \A c \in Client : Idle(c)'
      /\ \A t \in Timer : ~stopped'[t]
      /\ phase' = "boot"
  BY <1>4 DEF Boot, BootInv, Idle
<1> QED
  BY <1>4, <1>5, <1>6, <1>7 DEF BootInv

LEMMA BootGoesOn ==
    ASSUME TypeInv, BootInv, phase = "boot", NEW a \in Actor, Step(a)
    PROVE  BootInv'
<1> DEFINE s == todo["manager"]
           t == todo'["manager"]
<1>0. a = "manager"
  BY DEF Step, BootInv, Actor
<1>1. /\ s \in Seq(Command) /\ s # <<>>
      /\ \A new : Goes(a, new) => t = new \o Tail(s) /\ \A c \in Client : todo'[c] = todo[c]
      /\ GoesOn(a) => t = Tail(s) /\ \A c \in Client : todo'[c] = todo[c]
  BY <1>0, ModulesAssumption DEF TypeInv, TypeOK, Actor, ModulesAssumption, Step, Idle, Goes, GoesOn
<1>2. PICK m \in Module :
          \/ BootStep(a, m) \/ StartStep(a, m) \/ HaltStep(a, m) \/ CloseStep(a, m)
          \/ \E state \in {"RUNNING", "STOPPED"} : StateStep(a, m, state)
          \/ \E p \in Part : SpawnStep(a, m, p) \/ StopStep(a, m, p)
  BY StepCases
<1>3. UNCHANGED phase
  BY StepCases
<1>4. <<>> \in Seq(Command) /\ About(m, <<>>) /\ \A x \in Seq(Command) : <<>> \o x = x
  BY ConcatEmptySeq DEF About
<1>5. /\ Head(s)[2] \in {"boot", "spawn"} \/ (Head(s)[2] = "state" /\ Head(s)[3] = "RUNNING")
      /\ Has(s, Head(s))
  <2>1. Has(s, Head(s))
    BY <1>1, HeadAndTail
  <2> QED
    BY <2>1 DEF BootInv, Has
<1>6. Tail(s) \in Seq(Command) /\ \A i \in DOMAIN Tail(s) : \E j \in DOMAIN s : s[j] = Tail(s)[i]
  BY <1>1, HeadTailProperties, RestStays
<1>7. \A n \in Module : Unbooted(n) \/ Booted(n)
  BY DEF BootInv
<1> DEFINE Allowed(c) == c[2] \in {"boot", "spawn"} \/ (c[2] = "state" /\ c[3] = "RUNNING")
<1>8. \A i \in DOMAIN s : Allowed(s[i])
  BY DEF BootInv, s
<1> HIDE DEF s, t
<1>9. ASSUME NEW new \in Seq(Command), About(m, new), t = new \o Tail(s), Head(s)[1] = m,
             \A n \in Module : n # m => row'[n] = row[n],
             \A n \in Module, p \in Part : n # m => Total(<<n, p>>)' = Total(<<n, p>>)
      PROVE  \A n \in Module : n # m => Unbooted(n)' \/ Booted(n)'
  <2> SUFFICES ASSUME NEW n \in Module, n # m PROVE Unbooted(n)' \/ Booted(n)'
    OBVIOUS
  <2>1. /\ \A op, arg : /\ Has(t, <<n, op, arg>>) <=> Has(s, <<n, op, arg>>)
                        /\ Once(s, <<n, op, arg>>) => Once(t, <<n, op, arg>>)
        /\ \A i \in DOMAIN t : t[i][1] = n => \E j \in DOMAIN s : s[j] = t[i]
    <3>1. PICK x, y : x = s /\ y = t
      OBVIOUS
    <3>2. /\ x \in Seq(Command) /\ x # <<>> /\ new \in Seq(Command) /\ y = new \o Tail(x)
          /\ About(m, new) /\ Head(x)[1] = m /\ n # m
      BY <1>1, <1>9, <3>1
    <3>3. Keeps(n, x, y)
      BY <3>2, OthersStay
    <3> QED
      BY <3>1, <3>3 DEF Keeps
  <2>2. row'[n] = row[n] /\ \A p \in Part : Total(<<n, p>>)' = Total(<<n, p>>)
    BY <1>9
  <2>3. Parts(n) \subseteq Part
    BY DEF Parts, Part
  <2>4. Unbooted(n) => Unbooted(n)'
    BY <2>1, <2>2 DEF Unbooted, s, t
  <2>5. Booted(n) => Booted(n)'
    BY <2>1, <2>2, <2>3 DEF Booted, spawning, s, t
  <2> QED
    BY <1>7, <2>4, <2>5
<1>10. CASE BootStep(a, m)
  <2> DEFINE new == For(m, Server[m].construct) \o Start(m)
  <2>1. /\ Head(s) = <<m, "boot", "module">> /\ Goes(a, new) /\ UNCHANGED <<row, stopped, threads>>
    BY <1>0, <1>10 DEF BootStep, Carries, s
  <2>2. /\ new \in Seq(Command) /\ About(m, new) /\ Upward(new)
        /\ Has(new, <<m, "state", "RUNNING">>)
        /\ \A p \in Parts(m) : Once(new, spawning(m, p))
    BY BootScript
  <2> HIDE DEF new
  <2>3. t = new \o Tail(s) /\ \A c \in Client : todo'[c] = todo[c]
    BY <1>1, <2>1
  <2>4. Unbooted(m)
    BY <1>5, <1>7, <2>1 DEF Booted, s
  <2>5. /\ ~Has(Tail(s), <<m, "boot", "module">>)
        /\ \A i \in DOMAIN Tail(s) : Tail(s)[i][1] # m
    <3>1. ~Has(Tail(s), <<m, "boot", "module">>)
      BY <1>1, <2>1, <2>4, HeadAndTail DEF Unbooted, s
    <3>2. \A i \in DOMAIN Tail(s) : Tail(s)[i][1] = m => Tail(s)[i] = <<m, "boot", "module">>
      BY <1>6, <2>4 DEF Unbooted, s
    <3> QED
      BY <3>1, <3>2 DEF Has
  <2>6. \A op, arg : ~Has(Tail(s), <<m, op, arg>>)
    BY <2>5 DEF Has
  <2>7. Booted(m)'
    <3>0. \A c : Has(t, c) <=> Has(new, c) \/ Has(Tail(s), c)
      BY <1>6, <2>2, <2>3, HasConcat
    <3>1. ~Has(t, <<m, "boot", "module">>)
      <4>1. ~Has(new, <<m, "boot", "module">>)
        BY <2>2 DEF Upward, Has
      <4> QED
        BY <2>6, <3>0, <4>1
    <3>2. Has(t, <<m, "state", "RUNNING">>)
      BY <2>2, <3>0
    <3>3. ASSUME NEW p \in Parts(m)
          PROVE  Total(<<m, p>>)' = 0 /\ Once(t, spawning(m, p))
      <4>1. Once(t, spawning(m, p))
        BY <1>6, <2>2, <2>3, <2>6, OnceConcat DEF spawning
      <4>2. Total(<<m, p>>)' = 0
        BY <2>1, <2>4 DEF Unbooted, Parts, Part, Total
      <4> QED
        BY <4>1, <4>2
    <3> QED
      BY <3>1, <3>2, <3>3 DEF Booted, t
  <2>8. \A n \in Module : n # m => Unbooted(n)' \/ Booted(n)'
    <3>1. /\ Head(s)[1] = m
          /\ \A n \in Module : n # m => row'[n] = row[n]
          /\ \A n \in Module, p \in Part : n # m => Total(<<n, p>>)' = Total(<<n, p>>)
      BY <2>1 DEF Total
    <3> QED
      BY <1>9, <2>2, <2>3, <3>1
  <2>9. \A i \in DOMAIN t : Allowed(t[i])
    <3>2. \A i \in DOMAIN new : Allowed(new[i])
      BY <2>2 DEF Upward
    <3>3. \A i \in DOMAIN Tail(s) : Allowed(Tail(s)[i])
      BY <1>6, <1>8
    <3> HIDE DEF Allowed
    <3> QED
      BY <1>6, <2>2, <2>3, <3>2, <3>3, ConcatProperties
  <2> QED
    BY <1>3, <2>1, <2>3, <2>7, <2>8, <2>9 DEF BootInv, Idle, t
<1>11. ASSUME GoesOn(a), Head(s)[1] = m, UNCHANGED stopped,
              \A n \in Module : n # m => row'[n] = row[n],
              \A n \in Module, p \in Part : n # m => Total(<<n, p>>)' = Total(<<n, p>>),
              Booted(m)'
       PROVE  BootInv'
  <2>1. t = Tail(s) /\ t = <<>> \o Tail(s) /\ \A c \in Client : todo'[c] = todo[c]
    BY <1>1, <1>4, <1>6, <1>11
  <2>2. \A n \in Module : n # m => Unbooted(n)' \/ Booted(n)'
    BY <1>4, <1>9, <1>11, <2>1
  <2>3. \A i \in DOMAIN t : Allowed(t[i])
    BY <1>6, <1>8, <2>1
  <2> QED
    BY <1>3, <1>11, <2>1, <2>2, <2>3 DEF BootInv, Idle, t
<1>12. ASSUME NEW op, NEW arg, Head(s) = <<m, op, arg>>, op # "boot"
       PROVE  Booted(m)
  <2>1. ~Unbooted(m)
    <3>1. \E i \in DOMAIN s : s[i] = <<m, op, arg>>
      BY <1>5, <1>12 DEF Has
    <3> QED
      BY <1>12, <3>1 DEF Unbooted, s
  <2> QED
    BY <1>7, <2>1
<1>13. CASE StateStep(a, m, "RUNNING")
  <2>1. /\ Head(s) = <<m, "state", "RUNNING">> /\ GoesOn(a)
        /\ row' = [row EXCEPT ![m].state = "RUNNING"] /\ UNCHANGED <<stopped, threads>>
    BY <1>0, <1>13 DEF StateStep, Carries, s
  <2>2. t = Tail(s) /\ Booted(m)
    BY <1>1, <1>12, <2>1
  <2>3. \A op, arg : op # "state" =>
            /\ Has(t, <<m, op, arg>>) <=> Has(s, <<m, op, arg>>)
            /\ Once(s, <<m, op, arg>>) => Once(t, <<m, op, arg>>)
    BY <1>1, <2>1, <2>2, HeadAndTail
  <2>4. /\ row'[m].state = "RUNNING"
        /\ \A n \in Module : n # m => row'[n] = row[n]
    BY <2>1 DEF TypeInv, TypeOK
  <2>5. \A n, p : Total(<<n, p>>)' = Total(<<n, p>>)
    BY <2>1 DEF Total
  <2>6. Booted(m)'
    BY <2>2, <2>3, <2>4, <2>5 DEF Booted, spawning, s, t
  <2> QED
    BY <1>11, <2>1, <2>4, <2>5, <2>6
<1>14. ASSUME NEW p \in Part, SpawnStep(a, m, p)
       PROVE  BootInv'
  <2>1. /\ Head(s) = <<m, "spawn", p>> /\ GoesOn(a)
        /\ threads' = [threads EXCEPT ![<<m, p>>]["sleep"] = @ + 1] /\ UNCHANGED <<row, stopped>>
    BY <1>0, <1>14 DEF SpawnStep, Carries, s
  <2>2. t = Tail(s) /\ Booted(m)
    BY <1>1, <1>12, <2>1
  <2>3. \A op, arg : op # "spawn" \/ arg # p =>
            /\ Has(t, <<m, op, arg>>) <=> Has(s, <<m, op, arg>>)
            /\ Once(s, <<m, op, arg>>) => Once(t, <<m, op, arg>>)
    BY <1>1, <2>1, <2>2, HeadAndTail
  <2>4. /\ Has(s, spawning(m, p))
        /\ Once(s, spawning(m, p)) => ~Has(t, spawning(m, p))
    BY <1>1, <2>1, <2>2, HeadAndTail DEF spawning
  <2>5. /\ Total(<<m, p>>)' = Total(<<m, p>>) + 1
        /\ \A u \in Timer : u # <<m, p>> => Total(u)' = Total(u)
    <3>1. threads \in [Timer -> [Stage -> Nat]] /\ <<m, p>> \in Timer
      BY DEF TypeInv, TypeOK, Timer
    <3>2. /\ threads'[<<m, p>>] = [threads[<<m, p>>] EXCEPT !["sleep"] = @ + 1]
          /\ \A u \in Timer : u # <<m, p>> => threads'[u] = threads[u]
      BY <2>1, <3>1
    <3>3. threads[<<m, p>>] \in [Stage -> Nat]
      BY <3>1
    <3>4. Total(<<m, p>>)' = Total(<<m, p>>) + 1
      BY <3>2, <3>3 DEF Total, Stage
    <3> QED
      BY <3>2, <3>4 DEF Total
  <2>6. /\ \A n \in Module, q \in Part : n # m => Total(<<n, q>>)' = Total(<<n, q>>)
        /\ \A q \in Part : q # p => Total(<<m, q>>)' = Total(<<m, q>>)
    BY <2>5 DEF Timer
  <2>7. ASSUME NEW q \in Parts(m)
        PROVE  \/ Total(<<m, q>>)' = 1 /\ ~Has(t, spawning(m, q))
               \/ Total(<<m, q>>)' = 0 /\ Once(t, spawning(m, q))
    <3>0. q \in Part
      BY DEF Parts, Part
    <3>1. \/ Total(<<m, q>>) = 1 /\ ~Has(s, spawning(m, q))
          \/ Total(<<m, q>>) = 0 /\ Once(s, spawning(m, q))
      BY <2>2 DEF Booted, s
    <3>2. CASE q = p
      BY <2>4, <2>5, <3>1, <3>2
    <3>3. CASE q # p
      BY <2>3, <2>6, <3>0, <3>1, <3>3 DEF spawning
    <3> QED
      BY <3>2, <3>3
  <2>8. ~Has(t, <<m, "boot", "module">>)
    BY <2>2, <2>3 DEF Booted, s
  <2>9. row'[m].state = "RUNNING" \/ Has(t, <<m, "state", "RUNNING">>)
    BY <2>1, <2>2, <2>3 DEF Booted, s
  <2>10. Booted(m)'
    BY <2>7, <2>8, <2>9 DEF Booted, t
  <2> QED
    BY <1>11, <2>1, <2>6, <2>10
<1>15. BootStep(a, m) \/ StateStep(a, m, "RUNNING") \/ \E p \in Part : SpawnStep(a, m, p)
  <2>1. \A op, arg : Carries(a, <<m, op, arg>>) =>
            op \in {"boot", "spawn"} \/ (op = "state" /\ arg = "RUNNING")
    BY <1>0, <1>5 DEF Carries, s
  <2>2. ~StartStep(a, m) /\ ~HaltStep(a, m) /\ ~CloseStep(a, m)
    BY <2>1 DEF StartStep, HaltStep, CloseStep
  <2>3. ~StateStep(a, m, "STOPPED") /\ \A p \in Part : ~StopStep(a, m, p)
    BY <2>1 DEF StateStep, StopStep
  <2> QED
    BY <1>2, <2>2, <2>3
<1> QED
  BY <1>10, <1>13, <1>14, <1>15

LEMMA InitBoot == Init => BootInv
<1> SUFFICES ASSUME Init PROVE BootInv
  OBVIOUS
<1>1. \A c \in Client : Idle(c)
  BY DEF Init, Idle, Actor
<1>2. \A t \in Timer : ~stopped[t] /\ Total(t) = 0
  BY DEF Init, Total, Stage
<1>3. \A m \in Module : row[m].state = "none"
  BY DEF Init
<1> QED
  BY <1>1, <1>2, <1>3 DEF Init, BootInv

LEMMA NextBoot == TypeInv /\ BootInv /\ [Next]_vars => BootInv'
<1> SUFFICES ASSUME TypeInv, BootInv, [Next]_vars PROVE BootInv'
  OBVIOUS
<1>1. CASE UNCHANGED vars
  BY <1>1 DEF vars, BootInv, Idle, Total, Unbooted, Booted
<1>2. CASE Boot
  BY <1>2, BootBegins
<1>3. CASE Serve \/ Signal \/ Leave
  BY <1>3 DEF Serve, Signal, Leave, BootInv
<1>4. ASSUME NEW c \in Client, Accept(c) PROVE BootInv'
  BY <1>4 DEF Accept, BootInv
<1>5. ASSUME NEW a \in Actor, Step(a) PROVE BootInv'
  <2>1. phase # "init" /\ phase' = phase
    BY <1>5, StepCases DEF TypeInv, Step
  <2>2. CASE phase = "boot"
    BY <1>5, <2>2, BootGoesOn
  <2>3. CASE phase # "boot"
    BY <2>1, <2>3 DEF BootInv
  <2> QED
    BY <2>2, <2>3
<1>6. ASSUME NEW t \in Timer, TimerStep(t) PROVE BootInv'
  <2>1. /\ UNCHANGED <<row, stopped, todo, phase, requests>>
        /\ \A u \in Timer : ~stopped[u] => Total(u)' = Total(u)
    BY <1>6, TimerSteps
  <2>2. CASE phase \in {"init", "boot"}
    <3>1. \A u \in Timer : Total(u)' = Total(u)
      BY <2>1, <2>2 DEF BootInv
    <3>2. \A m \in Module, p \in Part : Total(<<m, p>>)' = Total(<<m, p>>)
      BY <3>1 DEF Timer
    <3>3. \A m \in Module : Unbooted(m) => Unbooted(m)'
      BY <2>1, <3>2 DEF Unbooted
    <3>4. \A m \in Module : Booted(m) => Booted(m)'
      <4>1. \A m \in Module : Parts(m) \subseteq Part
        BY DEF Parts, Part
      <4> QED
        BY <2>1, <3>2, <4>1 DEF Booted
    <3> QED
      BY <2>1, <3>1, <3>3, <3>4 DEF BootInv, Idle
  <2>3. CASE phase \notin {"init", "boot"}
    BY <2>1, <2>3 DEF BootInv
  <2> QED
    BY <2>2, <2>3
<1> QED
  BY <1>1, <1>2, <1>3, <1>4, <1>5, <1>6 DEF Next, TimerStep

(* When the listener opens, the script of the boot has come to its end.      *)
LEMMA ServeOpens ==
    ASSUME TypeInv, BootInv, Serve, NEW m \in Module
    PROVE  /\ row[m].state = "RUNNING"
           /\ \A p \in Parts(m) : Total(<<m, p>>) = 1
<1>1. phase = "boot" /\ todo["manager"] = <<>>
  BY DEF Serve, Idle
<1>2. \A c : ~Has(todo["manager"], c) /\ ~Once(todo["manager"], c)
  BY <1>1 DEF Has, Once
<1>3. Booted(m)
  BY <1>1, <1>2 DEF BootInv, Unbooted
<1> QED
  BY <1>2, <1>3 DEF Booted

(* The listener opens on modules that are all up (Manager::StartModules and  *)
(* the constructors and Initialize of the servers).                          *)
THEOREM BootIsComplete == Spec => BootBringsModulesUp
<1> DEFINE A == phase = "boot" /\ phase' = "serve" =>
                    \A m \in Module : /\ row'[m].state = "RUNNING"
                                      /\ \A p \in Parts(m) : Total(<<m, p>>) = 1
<1>1. ASSUME TypeInv, BootInv, [Next]_vars, phase = "boot", phase' = "serve", NEW m \in Module
      PROVE  /\ row'[m].state = "RUNNING"
             /\ \A p \in Parts(m) : Total(<<m, p>>) = 1
  <2>1. Serve
    <3>1. \A a \in Actor : Step(a) => phase' = phase
      BY <1>1, StepCases
    <3>2. \A t \in Timer : TimerStep(t) => phase' = phase
      BY <1>1, TimerSteps
    <3> QED
      BY <1>1, <3>1, <3>2 DEF Next, TimerStep, vars, Boot, Signal, Leave, Accept
  <2>2. UNCHANGED <<row, threads>>
    BY <2>1 DEF Serve
  <2> QED
    BY <1>1, <2>1, <2>2, ServeOpens
<1>2. TypeInv /\ BootInv /\ [Next]_vars => [A]_vars
  BY <1>1
<1>3. [][A]_vars => BootBringsModulesUp
  BY DEF BootBringsModulesUp
<1>4. Spec => [][A]_vars
  <2> HIDE DEF A
  <2> QED
    BY <1>2, InitType, NextType, InitBoot, NextBoot, PTL DEF Spec
<1> QED
  BY <1>3, <1>4

-----------------------------------------------------------------------------
(* After the boot.                                                           *)

(* Whatever an actor does, it takes its first command away and puts in front *)
(* of the rest only commands about the same module; a close is replaced by   *)
(* the whole stop.                                                           *)
LEMMA StepScript ==
    ASSUME TypeInv, NEW a \in Actor, Step(a)
    PROVE  /\ todo[a] \in Seq(Command) /\ todo[a] # <<>>
           /\ \A b \in Actor \ {a} : todo'[b] = todo[b]
           /\ \E new \in Seq(Command) :
                  /\ About(Head(todo[a])[1], new)
                  /\ todo'[a] = new \o Tail(todo[a])
                  /\ \A m \in Module : Head(todo[a]) = <<m, "close", "module">> => new = Halt(m)
<1>1. todo \in [Actor -> Seq(Command)] /\ todo[a] # <<>>
  BY DEF TypeInv, TypeOK, Step, Idle
<1>2. PICK m \in Module :
          \/ BootStep(a, m) \/ StartStep(a, m) \/ HaltStep(a, m) \/ CloseStep(a, m)
          \/ \E state \in {"RUNNING", "STOPPED"} : StateStep(a, m, state)
          \/ \E p \in Part : SpawnStep(a, m, p) \/ StopStep(a, m, p)
  BY StepCases
<1>3. <<>> \in Seq(Command) /\ About(m, <<>>) /\ Tail(todo[a]) = <<>> \o Tail(todo[a])
  BY <1>1, ConcatEmptySeq, HeadTailProperties DEF About
<1> DEFINE Result ==
               /\ \A b \in Actor \ {a} : todo'[b] = todo[b]
               /\ \E x \in Seq(Command) :
                      /\ About(Head(todo[a])[1], x)
                      /\ todo'[a] = x \o Tail(todo[a])
                      /\ \A k \in Module : Head(todo[a]) = <<k, "close", "module">> => x = Halt(k)
<1>4. ASSUME NEW new \in Seq(Command), About(m, new), Goes(a, new),
             NEW op, NEW arg, Head(todo[a]) = <<m, op, arg>>, op = "close" => new = Halt(m)
      PROVE  Result
  <2>1. \A b \in Actor \ {a} : todo'[b] = todo[b]
    BY <1>1, <1>4 DEF Goes
  <2>2. todo'[a] = new \o Tail(todo[a])
    BY <1>1, <1>4 DEF Goes
  <2>3. \A k \in Module : Head(todo[a]) = <<k, "close", "module">> => new = Halt(k)
    BY <1>4
  <2>4. Head(todo[a])[1] = m
    BY <1>4
  <2> QED
    BY <1>4, <2>1, <2>2, <2>3, <2>4
<1> SUFFICES Result
  BY <1>1
<1> HIDE DEF Result
<1>5. GoesOn(a) <=> Goes(a, <<>>)
  BY <1>3 DEF GoesOn, Goes
<1>6. CASE BootStep(a, m)
  <2>1. /\ Head(todo[a]) = <<m, "boot", "module">>
        /\ Goes(a, For(m, Server[m].construct) \o Start(m))
    BY <1>6 DEF BootStep, Carries
  <2> QED
    BY <1>4, <2>1, BootScript
<1>7. CASE StartStep(a, m)
  <2>1. PICK new \in Seq(Command) : About(m, new) /\ Goes(a, new)
    BY <1>7 DEF StartStep
  <2>2. Head(todo[a]) = <<m, "start", "module">>
    BY <1>7 DEF StartStep, Carries
  <2> QED
    BY <1>4, <2>1, <2>2
<1>8. CASE HaltStep(a, m)
  <2>1. Head(todo[a]) = <<m, "halt", "module">>
    BY <1>8 DEF HaltStep, Carries
  <2>2. Goes(a, Halt(m)) \/ Goes(a, <<>>)
    BY <1>8 DEF HaltStep
  <2>3. CASE Goes(a, Halt(m))
    BY <1>4, <2>1, <2>3, HaltScript
  <2>4. CASE GoesOn(a)
    <3>1. PICK op, arg : op \in {"halt", "state"} /\ Head(todo[a]) = <<m, op, arg>> /\ GoesOn(a)
      BY <2>1, <2>4
    <3> QED
      BY <1>3, <1>4, <1>5, <3>1
  <2> QED
    BY <1>5, <2>2, <2>3, <2>4
<1>9. CASE CloseStep(a, m)
  <2>1. Head(todo[a]) = <<m, "close", "module">> /\ Goes(a, Halt(m))
    BY <1>9 DEF CloseStep, Carries
  <2> QED
    BY <1>4, <2>1, HaltScript
<1>10. CASE \/ \E state \in {"RUNNING", "STOPPED"} : StateStep(a, m, state)
            \/ \E p \in Part : SpawnStep(a, m, p) \/ StopStep(a, m, p)
  <2>1. PICK op, arg : op \in {"state", "spawn", "stop"} /\ Head(todo[a]) = <<m, op, arg>> /\ GoesOn(a)
    BY <1>10 DEF StateStep, SpawnStep, StopStep, Carries
  <2> QED
    BY <1>3, <1>4, <1>5, <2>1
<1> QED
  BY <1>2, <1>6, <1>7, <1>8, <1>9, <1>10

(* And it touches nothing but the row and the timers of that module.         *)
LEMMA StepEffect ==
    ASSUME TypeInv, NEW a \in Actor, Step(a)
    PROVE  /\ \A n \in Module : n # Head(todo[a])[1] =>
                  /\ row'[n] = row[n]
                  /\ \A p \in Part : /\ stopped'[<<n, p>>] = stopped[<<n, p>>]
                                     /\ Total(<<n, p>>)' = Total(<<n, p>>)
           /\ \A t \in Timer : stopped[t] => stopped'[t]
           /\ \A n \in Module, p \in Part : Head(todo[a]) = <<n, "stop", p>> => stopped'[<<n, p>>]
<1>1. /\ row \in [Module -> [state : {"none", "STOPPED", "RUNNING"}, status : {"none", "ACTIVE"}]]
      /\ stopped \in [Timer -> BOOLEAN] /\ threads \in [Timer -> [Stage -> Nat]]
      /\ \A n \in Module, p \in Part : <<n, p>> \in Timer
  BY DEF TypeInv, TypeOK, Timer
<1>2. PICK m \in Module :
          \/ BootStep(a, m) \/ StartStep(a, m) \/ HaltStep(a, m) \/ CloseStep(a, m)
          \/ \E state \in {"RUNNING", "STOPPED"} : StateStep(a, m, state)
          \/ \E p \in Part : SpawnStep(a, m, p) \/ StopStep(a, m, p)
  BY StepCases
<1>3. CASE BootStep(a, m) \/ StartStep(a, m) \/ HaltStep(a, m) \/ CloseStep(a, m)
  <2>1. UNCHANGED <<row, stopped, threads>>
    BY <1>3 DEF BootStep, StartStep, HaltStep, CloseStep
  <2>2. PICK op \in {"boot", "start", "halt", "close"} : Head(todo[a]) = <<m, op, "module">>
    BY <1>3 DEF BootStep, StartStep, HaltStep, CloseStep, Carries
  <2> QED
    BY <2>1, <2>2 DEF Total
<1>4. ASSUME NEW state \in {"RUNNING", "STOPPED"}, StateStep(a, m, state)
      PROVE  /\ \A n \in Module : n # m => row'[n] = row[n]
             /\ UNCHANGED <<stopped, threads>> /\ Head(todo[a]) = <<m, "state", state>>
  BY <1>1, <1>4 DEF StateStep, Carries
<1>5. ASSUME NEW p \in Part, SpawnStep(a, m, p)
      PROVE  /\ UNCHANGED <<row, stopped>> /\ Head(todo[a]) = <<m, "spawn", p>>
             /\ \A t \in Timer : t # <<m, p>> => threads'[t] = threads[t]
  BY <1>1, <1>5 DEF SpawnStep, Carries
<1>6. ASSUME NEW p \in Part, StopStep(a, m, p)
      PROVE  /\ UNCHANGED <<row, threads>> /\ Head(todo[a]) = <<m, "stop", p>>
             /\ \A t \in Timer : t # <<m, p>> => stopped'[t] = stopped[t]
             /\ stopped'[<<m, p>>]
  BY <1>1, <1>6 DEF StopStep, Carries
<1>7. CASE \E state \in {"RUNNING", "STOPPED"} : StateStep(a, m, state)
  BY <1>4, <1>7 DEF Total
<1>8. CASE \E p \in Part : SpawnStep(a, m, p)
  BY <1>1, <1>5, <1>8 DEF Total
<1>9. CASE \E p \in Part : StopStep(a, m, p)
  <2>1. PICK p \in Part : StopStep(a, m, p)
    BY <1>9
  <2>2. /\ UNCHANGED <<row, threads>> /\ Head(todo[a]) = <<m, "stop", p>>
        /\ \A t \in Timer : t # <<m, p>> => stopped'[t] = stopped[t]
        /\ stopped'[<<m, p>>]
    BY <1>6, <2>1
  <2>3. Head(todo[a])[1] = m /\ \A n, q : Head(todo[a]) = <<n, "stop", q>> => n = m /\ q = p
    BY <2>2
  <2>4. \A n \in Module : n # m => row'[n] = row[n] /\
            \A q \in Part : stopped'[<<n, q>>] = stopped[<<n, q>>] /\ Total(<<n, q>>)' = Total(<<n, q>>)
    BY <1>1, <2>2 DEF Total
  <2>5. \A t \in Timer : stopped[t] => stopped'[t]
    BY <2>2
  <2> QED
    BY <2>2, <2>3, <2>4, <2>5
<1> QED
  BY <1>2, <1>3, <1>7, <1>8, <1>9

(* A stop that somebody has begun is carried to its end. *)
LEMMA EndsStay ==
    ASSUME TypeInv, NEW a \in Actor, Step(a), NEW n \in Module, NEW p \in StopParts(n), Ends(n, p)
    PROVE  Ends(n, p)'
<1>1. PICK new \in Seq(Command) :
          /\ todo'[a] = new \o Tail(todo[a])
          /\ Head(todo[a]) = <<n, "close", "module">> => new = Halt(n)
  BY StepScript
<1>2. /\ todo[a] \in Seq(Command) /\ todo[a] # <<>>
      /\ \A b \in Actor \ {a} : todo'[b] = todo[b]
  BY StepScript
<1>3. \A c : Has(todo[a], c) <=> Head(todo[a]) = c \/ Has(Tail(todo[a]), c)
  BY <1>2, HeadAndTail
<1>4. \A c : Has(todo'[a], c) <=> Has(new, c) \/ Has(Tail(todo[a]), c)
  <2>1. PICK x : x = Tail(todo[a])
    OBVIOUS
  <2>2. x \in Seq(Command)
    BY <1>2, <2>1, HeadTailProperties
  <2>3. \A c : Has(new \o x, c) <=> Has(new, c) \/ Has(x, c)
    BY <2>2, HasConcat
  <2> QED
    BY <1>1, <2>1, <2>3
<1>5. p \in Part /\ <<n, p>> \in Timer
  BY DEF StopParts, Part, Timer
<1>6. CASE stopped[<<n, p>>]
  BY <1>5, <1>6, StepEffect DEF Ends
<1> DEFINE halts == <<n, "stop", p>>
           closes == <<n, "close", "module">>
<1>7. ASSUME NEW b \in Actor, Has(todo[b], halts) \/ Has(todo[b], closes)
      PROVE  Ends(n, p)'
  <2>1. CASE b # a
    <3>1. todo'[b] = todo[b]
      BY <1>2, <2>1
    <3>2. Has(todo'[b], halts) \/ Has(todo'[b], closes)
      BY <1>7, <3>1
    <3> QED
      BY <3>2 DEF Ends
  <2>2. CASE Has(Tail(todo[a]), halts) \/ Has(Tail(todo[a]), closes)
    <3>1. Has(todo'[a], halts) \/ Has(todo'[a], closes)
      BY <1>4, <2>2
    <3> QED
      BY <3>1 DEF Ends
  <2>3. CASE Head(todo[a]) = halts
    BY <1>5, <2>3, StepEffect DEF Ends
  <2>4. CASE Head(todo[a]) = closes
    <3>1. Has(Halt(n), halts)
      BY HaltScript
    <3>2. Has(todo'[a], halts)
      BY <1>1, <1>4, <2>4, <3>1
    <3> QED
      BY <3>2 DEF Ends
  <2> QED
    BY <1>3, <1>7, <2>1, <2>2, <2>3, <2>4
<1> QED
  BY <1>6, <1>7 DEF Ends

(* Requests leave an untouched module as it is, or begin to stop it. *)
LEMMA UntouchedGoesOn ==
    ASSUME TypeInv, NEW a \in Actor, Step(a), NEW n \in Module, Untouched(n)
    PROVE  Untouched(n)' \/ Ending(n)'
<1>1. /\ todo[a] \in Seq(Command) /\ todo[a] # <<>>
      /\ \A b \in Actor \ {a} : todo'[b] = todo[b]
  BY StepScript
<1>2. Parts(n) \subseteq Part /\ \A p \in Part : <<n, p>> \in Timer
  BY DEF Parts, Part, Timer
<1>3. ASSUME row'[n] = row[n],
             \A p \in Part : stopped'[<<n, p>>] = stopped[<<n, p>>] /\ Total(<<n, p>>)' = Total(<<n, p>>),
             \A i \in DOMAIN todo'[a] : todo'[a][i][1] = n => \E j \in DOMAIN todo[a] : todo[a][j] = todo'[a][i]
      PROVE  Untouched(n)'
  <2>1. ASSUME NEW b \in Actor, NEW i \in DOMAIN todo'[b], todo'[b][i][1] = n
        PROVE  todo'[b][i][2] \in {"start", "halt"}
    <3>1. \E j \in DOMAIN todo[b] : todo[b][j] = todo'[b][i]
      BY <1>1, <1>3, <2>1
    <3> QED
      BY <2>1, <3>1 DEF Untouched
  <2> QED
    BY <1>2, <1>3, <2>1 DEF Untouched
<1>4. CASE Head(todo[a])[1] # n
  <2>1. PICK new \in Seq(Command) : About(Head(todo[a])[1], new) /\ todo'[a] = new \o Tail(todo[a])
    BY StepScript
  <2>2. PICK m, x : m = Head(todo[a])[1] /\ x = todo[a]
    OBVIOUS
  <2>3. Keeps(n, x, new \o Tail(x))
    <3>1. x \in Seq(Command) /\ x # <<>> /\ About(m, new) /\ Head(x)[1] = m /\ n # m
      BY <1>1, <1>4, <2>1, <2>2
    <3> QED
      BY <3>1, OthersStay
  <2>4. \A i \in DOMAIN todo'[a] : todo'[a][i][1] = n => \E j \in DOMAIN todo[a] : todo[a][j] = todo'[a][i]
    BY <2>1, <2>2, <2>3 DEF Keeps
  <2> QED
    BY <1>3, <1>4, <2>4, StepEffect
<1>5. CASE Head(todo[a])[1] = n
  <2>1. Head(todo[a])[2] \in {"start", "halt"}
    <3>1. Has(todo[a], Head(todo[a]))
      BY <1>1, HeadAndTail
    <3> QED
      BY <1>5, <3>1 DEF Untouched, Has
  <2>2. PICK m \in Module :
            \/ BootStep(a, m) \/ StartStep(a, m) \/ HaltStep(a, m) \/ CloseStep(a, m)
            \/ \E state \in {"RUNNING", "STOPPED"} : StateStep(a, m, state)
            \/ \E p \in Part : SpawnStep(a, m, p) \/ StopStep(a, m, p)
    BY StepCases
  <2>3. \A k, op, arg : Carries(a, <<k, op, arg>>) => k = n /\ op \in {"start", "halt"}
    BY <1>5, <2>1 DEF Carries
  <2>4. StartStep(a, n) \/ HaltStep(a, n)
    <3>1. ~BootStep(a, m) /\ ~CloseStep(a, m)
      BY <2>3 DEF BootStep, CloseStep
    <3>2. /\ \A state \in {"RUNNING", "STOPPED"} : ~StateStep(a, m, state)
          /\ \A p \in Part : ~SpawnStep(a, m, p) /\ ~StopStep(a, m, p)
      BY <2>3 DEF StateStep, SpawnStep, StopStep
    <3>3. StartStep(a, m) \/ HaltStep(a, m)
      BY <2>2, <3>1, <3>2
    <3>4. m = n
      BY <2>3, <3>3 DEF StartStep, HaltStep
    <3> QED
      BY <3>3, <3>4
  <2>5. row[n].state = "RUNNING" /\ a \in DOMAIN todo
    BY DEF Untouched, TypeInv, TypeOK
  <2>6. CASE StartStep(a, n)
    <3>1. PICK new \in Seq(Command) : Goes(a, new) /\ new = <<>>
      BY <2>5, <2>6 DEF StartStep
    <3>2. todo'[a] = Tail(todo[a])
      BY <1>1, <2>5, <3>1, ConcatEmptySeq, HeadTailProperties DEF Goes
    <3>3. \A i \in DOMAIN todo'[a] : todo'[a][i][1] = n => \E j \in DOMAIN todo[a] : todo[a][j] = todo'[a][i]
      BY <1>1, <3>2, RestStays
    <3>4. UNCHANGED <<row, stopped, threads>>
      BY <2>6 DEF StartStep
    <3> QED
      BY <1>3, <3>3, <3>4 DEF Total
  <2>7. CASE HaltStep(a, n)
    <3>1. todo'[a] = Halt(n) \o Tail(todo[a])
      BY <2>5, <2>7 DEF HaltStep, Goes
    <3>2. \A p \in StopParts(n) : Has(todo'[a], <<n, "stop", p>>)
      <4>1. Halt(n) \in Seq(Command) /\ \A p \in StopParts(n) : Has(Halt(n), <<n, "stop", p>>)
        BY HaltScript
      <4>2. Tail(todo[a]) \in Seq(Command)
        BY <1>1, HeadTailProperties
      <4>3. PICK x, y : x = Halt(n) /\ y = Tail(todo[a])
        OBVIOUS
      <4>4. \A c : Has(x \o y, c) <=> Has(x, c) \/ Has(y, c)
        BY <4>1, <4>2, <4>3, HasConcat
      <4> QED
        BY <3>1, <4>1, <4>3, <4>4
    <3> QED
      BY <3>2 DEF Ending, Ends
  <2> QED
    BY <2>4, <2>6, <2>7
<1> QED
  BY <1>4, <1>5

LEMMA InitLife == Init => LifeInv
  BY DEF Init, LifeInv

LEMMA NextLife == TypeInv /\ BootInv /\ LifeInv /\ [Next]_vars => LifeInv'
<1> SUFFICES ASSUME TypeInv, BootInv, LifeInv, [Next]_vars PROVE LifeInv'
  OBVIOUS
<1>1. ASSUME UNCHANGED <<row, stopped, todo>>,
             \A n \in Module : \A p \in Parts(n) : ~stopped[<<n, p>>] => Total(<<n, p>>)' = Total(<<n, p>>),
             NEW n \in Module
      PROVE  /\ Untouched(n) => Untouched(n)'
             /\ Ending(n) => Ending(n)'
  <2>1. Parts(n) \subseteq Part
    BY DEF Parts, Part
  <2>2. Untouched(n) => Untouched(n)'
    BY <1>1, <2>1 DEF Untouched
  <2>3. Ending(n) => Ending(n)'
    BY <1>1 DEF Ending, Ends
  <2> QED
    BY <2>2, <2>3
<1>2. CASE UNCHANGED vars
  BY <1>1, <1>2 DEF vars, LifeInv, Idle, Total
<1>3. CASE Boot
  BY <1>3 DEF Boot, LifeInv
<1>4. CASE Serve
  <2>1. ASSUME NEW m \in Module PROVE Untouched(m)'
    <3>1. row'[m].state = "RUNNING" /\ \A p \in Parts(m) : Total(<<m, p>>)' = 1
      BY <1>4, ServeOpens DEF Serve, Total
    <3>2. \A p \in Part : ~stopped'[<<m, p>>]
      BY <1>4 DEF Serve, BootInv, Timer
    <3>3. \A a \in Actor : DOMAIN todo'[a] = {}
      BY <1>4 DEF Serve, BootInv, Idle, Actor
    <3> QED
      BY <3>1, <3>2, <3>3 DEF Untouched
  <2> QED
    BY <1>4, <2>1 DEF Serve, LifeInv, Idle
<1>5. CASE Signal
  <2> DEFINE R == {m \in Module : row[m].state = "RUNNING"}
  <2>1. PICK modules \in SetToSeqs(R) :
            todo' = [todo EXCEPT !["manager"] = ForEach(modules, "close")]
    BY <1>5 DEF Signal
  <2>2. R \in SUBSET Module
    OBVIOUS
  <2> HIDE DEF R
  <2>3. /\ modules \in Seq(Module)
        /\ \A m \in R : \E i \in DOMAIN modules : modules[i] = m
    BY <2>2, Orders
  <2>4. /\ DOMAIN ForEach(modules, "close") = DOMAIN modules
        /\ \A i \in DOMAIN modules : ForEach(modules, "close")[i] = <<modules[i], "close", "module">>
    BY <2>3, ForEachScript
  <2>5. \A m \in R : Has(ForEach(modules, "close"), <<m, "close", "module">>)
    BY <2>3, <2>4 DEF Has
  <2>6. /\ todo'["manager"] = ForEach(modules, "close")
        /\ \A c \in Actor : c # "manager" => todo'[c] = todo[c]
        /\ "manager" \in Actor
    BY <2>1 DEF TypeInv, TypeOK, Actor
  <2>7. phase = "serve" /\ todo["manager"] = <<>> /\ UNCHANGED <<row, stopped>>
    BY <1>5 DEF Signal, LifeInv, Idle
  <2>8. ASSUME NEW m \in Module PROVE Ending(m)'
    <3>1. CASE m \in R
      <4>1. Has(todo'["manager"], <<m, "close", "module">>)
        BY <2>5, <2>6, <3>1
      <4> QED
        BY <2>6, <4>1 DEF Ending, Ends
    <3>2. CASE m \notin R
      <4>1. Ending(m)
        BY <2>7, <3>2 DEF LifeInv, Untouched, R
      <4>2. ASSUME NEW p \in StopParts(m) PROVE Ends(m, p)'
        <5>1. Ends(m, p)
          BY <4>1 DEF Ending
        <5>2. \A c : ~Has(todo["manager"], c)
          BY <2>7 DEF Has
        <5> QED
          BY <2>6, <2>7, <5>1, <5>2 DEF Ends
      <4> QED
        BY <4>2 DEF Ending
    <3> QED
      BY <3>1, <3>2
  <2> QED
    BY <1>5, <2>8 DEF Signal, LifeInv
<1>6. CASE Leave
  <2>1. UNCHANGED <<row, stopped, todo, threads>> /\ phase = "halt" /\ phase' = "done"
    BY <1>6 DEF Leave
  <2>2. Idle("manager") /\ \A c \in Client : Idle(c)
    BY <1>6 DEF Leave, Joined
  <2>3. \A m \in Module : Ending(m)'
    BY <1>1, <2>1 DEF LifeInv, Total
  <2> QED
    BY <2>1, <2>2, <2>3 DEF LifeInv, Idle
<1>7. ASSUME NEW c \in Client, Accept(c) PROVE LifeInv'
  <2>1. PICK kind \in Kind, list \in RequestLists : todo' = [todo EXCEPT ![c] = Request(kind, list)]
    BY <1>7 DEF Accept
  <2>2. phase = "serve" /\ phase' = "serve" /\ todo[c] = <<>> /\ UNCHANGED <<row, stopped, threads>>
    BY <1>7 DEF Accept, Idle
  <2>3. c \in Actor /\ "manager" \in Actor /\ c # "manager"
    BY ModulesAssumption DEF Actor, ModulesAssumption
  <2>4. todo'[c] = Request(kind, list) /\ \A a \in Actor \ {c} : todo'[a] = todo[a]
    BY <2>1, <2>3 DEF TypeInv, TypeOK
  <2>5. \A i \in DOMAIN todo'[c] : todo'[c][i][2] \in {"start", "halt"}
    BY <2>4, RequestScript, ModulesAssumption DEF ModulesAssumption
  <2>6. ASSUME NEW n \in Module, Untouched(n) PROVE Untouched(n)'
    <3>1. \A p \in Parts(n) : Total(<<n, p>>)' = Total(<<n, p>>)
      BY <2>2 DEF Total
    <3>2. \A a \in Actor : \A i \in DOMAIN todo'[a] :
              todo'[a][i][1] = n => todo'[a][i][2] \in {"start", "halt"}
      BY <2>4, <2>5, <2>6 DEF Untouched
    <3> QED
      BY <2>2, <2>6, <3>1, <3>2 DEF Untouched
  <2>7. ASSUME NEW n \in Module, Ending(n), NEW p \in StopParts(n) PROVE Ends(n, p)'
    <3>1. Ends(n, p)
      BY <2>7 DEF Ending
    <3>2. \A x : ~Has(todo[c], x)
      BY <2>2 DEF Has
    <3> QED
      BY <2>2, <2>4, <3>1, <3>2 DEF Ends
  <2>8. \A n \in Module : Untouched(n)' \/ Ending(n)'
    BY <2>2, <2>6, <2>7 DEF LifeInv, Ending
  <2>9. Idle("manager")'
    BY <2>2, <2>3, <2>4 DEF LifeInv, Idle
  <2> QED
    BY <2>2, <2>8, <2>9 DEF LifeInv
<1>8. ASSUME NEW a \in Actor, Step(a) PROVE LifeInv'
  <2>1. phase' = phase /\ todo[a] # <<>> /\ \A b \in Actor \ {a} : todo'[b] = todo[b]
    BY <1>8, StepCases, StepScript
  <2>2. \A n \in Module : Ending(n) => Ending(n)'
    BY <1>8, EndsStay DEF Ending
  <2>3. \A n \in Module : Untouched(n) => Untouched(n)' \/ Ending(n)'
    BY <1>8, UntouchedGoesOn
  <2>4. phase # "done"
    BY <2>1 DEF LifeInv, Idle, Actor
  <2>5. phase = "serve" => Idle("manager")'
    BY <2>1 DEF LifeInv, Idle, Actor
  <2> QED
    BY <2>1, <2>2, <2>3, <2>4, <2>5 DEF LifeInv
<1>9. ASSUME NEW t \in Timer, TimerStep(t) PROVE LifeInv'
  <2>1. /\ UNCHANGED <<row, stopped, todo, phase, requests>>
        /\ \A u \in Timer : ~stopped[u] => Total(u)' = Total(u)
    BY <1>9, TimerSteps
  <2>2. \A n \in Module : \A p \in Parts(n) : <<n, p>> \in Timer
    BY DEF Parts, Part, Timer
  <2>3. \A n \in Module : (Untouched(n) => Untouched(n)') /\ (Ending(n) => Ending(n)')
    BY <1>1, <2>1, <2>2
  <2> QED
    BY <2>1, <2>3 DEF LifeInv, Idle
<1> QED
  BY <1>2, <1>3, <1>4, <1>5, <1>6, <1>7, <1>8, <1>9 DEF Next, TimerStep

LEMMA LifeInvariant == Spec => [](TypeInv /\ BootInv /\ LifeInv)
  BY InitType, NextType, InitBoot, NextBoot, InitLife, NextLife, PTL DEF Spec

(* A command about a module keeps it from being settled. *)
LEMMA SettledEnds ==
    ASSUME TypeInv, NEW m \in Module, Settled(m), NEW p, Ends(m, p)
    PROVE  stopped[<<m, p>>]
  BY DEF Settled, Ends, Has

(* Whatever requests overlapped, a settled module nobody has stopped has one *)
(* thread per timer (ModuleService::StartModules).                           *)
THEOREM StartsDoNotDouble == Spec => []OneThreadWhileUp
<1>1. TypeInv /\ BootInv /\ LifeInv => OneThreadWhileUp
  <2> SUFFICES ASSUME TypeInv, BootInv, LifeInv, NEW m \in Module, phase # "boot", phase # "init",
                      Settled(m), ~stopped[<<m, "server">>]
               PROVE  \A p \in Parts(m) : ~stopped[<<m, p>>] /\ Total(<<m, p>>) = 1
    BY DEF OneThreadWhileUp
  <2>1. ~Ending(m)
    BY SettledEnds DEF Ending, StopParts
  <2>2. Untouched(m)
    BY <2>1 DEF LifeInv, TypeInv, TypeOK
  <2> QED
    BY <2>2 DEF Untouched, Parts, Part
<1> QED
  BY <1>1, LifeInvariant, PTL

(* Without S3 and DynamoDB, whose Shutdown forgets the worker, a settled     *)
(* module whose row says STOPPED is quiet (ModuleService::StopModules,       *)
(* Timer::Stop and the Shutdown of the servers).                             *)
THEOREM StoppedModulesAreQuiet ==
    ASSUME "s3" \notin Module, "dynamodb" \notin Module
    PROVE  Spec => []StoppedModuleIsQuiet
<1>0. CompleteShutdown
  BY ShutdownIsComplete
<1>1. TypeInv /\ BootInv /\ LifeInv => StoppedModuleIsQuiet
  <2> SUFFICES ASSUME TypeInv, BootInv, LifeInv, NEW m \in Module, phase # "boot",
                      Settled(m), row[m].state = "STOPPED", NEW p \in Parts(m)
               PROVE  stopped[<<m, p>>]
    BY DEF StoppedModuleIsQuiet
  <2>1. phase # "init"
    BY DEF BootInv
  <2>2. ~Untouched(m)
    BY DEF Untouched
  <2>3. Ending(m)
    BY <2>1, <2>2 DEF LifeInv, TypeInv, TypeOK
  <2>4. p \in StopParts(m)
    BY <1>0 DEF CompleteShutdown
  <2> QED
    BY <2>3, <2>4, SettledEnds DEF Ending
<1> QED
  BY <1>1, LifeInvariant, PTL

(* Without these two, when the process leaves, every timer has been told to  *)
(* stop, by the main thread or by a request it waited for                    *)
(* (Manager::StopModules, the join in Manager::Run).                         *)
THEOREM LeavingStopsAll ==
    ASSUME "s3" \notin Module, "dynamodb" \notin Module
    PROVE  Spec => []HaltStopsEveryTimer
<1>0. CompleteShutdown
  BY ShutdownIsComplete
<1>1. TypeInv /\ LifeInv => HaltStopsEveryTimer
  <2> SUFFICES ASSUME TypeInv, LifeInv, phase = "done", NEW m \in Module, NEW p \in Parts(m)
               PROVE  stopped[<<m, p>>]
    BY DEF HaltStopsEveryTimer
  <2>1. Ends(m, p)
    BY <1>0 DEF LifeInv, Ending, CompleteShutdown
  <2>2. \A a \in Actor : todo[a] = <<>>
    BY DEF LifeInv, Idle, Actor
  <2> QED
    BY <2>1, <2>2 DEF Ends, Has
<1> QED
  BY <1>1, LifeInvariant, PTL
=============================================================================
