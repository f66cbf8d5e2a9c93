-------------------------- MODULE QuotaControl_proofs --------------------------
(***************************************************************************)
(* Theorems about QuotaControl, for any instances, administrators, costs,  *)
(* amounts, cache lifetime and faults.                                     *)
(***************************************************************************)
EXTENDS QuotaControl, TLAPS

(* The types, variable by variable; what the watch has lost cost a fault    *)
(* each.                                                                   *)
KeyType   == key \in [quota : Quotas, log : Seq(Entry), spend : Nat]
AdminType == admin \in [Admins -> [step : {"idle", "base", "read", "write"},
                                   add : BOOLEAN, amount : Nat, base : Quotas,
                                   quota : Quotas, log : Seq(Entry)]]
CacheType == cached \in [Instances -> [quota : Quotas, spend : Nat \cup {None},
                                       age : 0..TTL]]
WatchType == watch \in [step : {"dead", "read", "mail", "save"}, level : Ok..Over,
                        new : Ok..Over, quota : Quotas, spend : Nat]
CallsType == pending \in Seq(Costs)
CountType ==
    /\ edits \in 0..MaxEdits /\ calls \in 0..MaxCalls
    /\ faults \in 0..MaxFaults /\ lost \in 0..MaxFaults /\ lost <= faults
    /\ acked \in Nat /\ overlaps \in Nat /\ again \in Nat
    /\ overFor \in 0..TTL /\ underFor \in 0..TTL
    /\ disk \in Ok..Over /\ told \in Ok..Over

TypeInv == KeyType /\ AdminType /\ CacheType /\ WatchType /\ CountType /\ CallsType

(* A copy of the key that an instance holds disagrees with the key for no   *)
(* longer than the copy is old.                                            *)
CopiesOK ==
    /\ Spent => underFor = 0
    /\ ~Spent => overFor = 0
    /\ \A i \in Instances : cached[i] # Absent =>
         /\ cached[i].age < TTL
         /\ ~Blocks(cached[i].quota, cached[i].spend) => overFor <= cached[i].age
         /\ Blocks(cached[i].quota, cached[i].spend) => underFor <= cached[i].age

(* The lines of a history, each starting where the one before ended, and    *)
(* the budget they lead to.                                                *)
Chain(log, quota) ==
    /\ \A n \in 1..Len(log) : log[n].from = IF n = 1 THEN None ELSE log[n - 1].to
    /\ quota = IF log = <<>> THEN None ELSE log[Len(log)].to

(* What a request has read of the key is a history in itself.              *)
ChainsOK ==
    /\ Chain(key.log, key.quota)
    /\ \A a \in Admins : admin[a].step = "write" => Chain(admin[a].log, admin[a].quota)

(* It is still that of the key as long as nothing was written under a       *)
(* request that held what it had read.                                     *)
Current(b) ==
    /\ admin[b].step = "write" => admin[b].quota = key.quota /\ admin[b].log = key.log
    /\ Holds(b) /\ admin[b].add => admin[b].base = key.quota
CurrentOK == overlaps = 0 => TopUpAdds /\ \A b \in Admins : Current(b)

(* Neither the key nor what a request will write from lacks more confirmed  *)
(* lines than there were writes under another request.                     *)
LinesOK ==
    /\ NoLineLost
    /\ \A b \in Admins : admin[b].step = "write" => acked <= Len(admin[b].log) + overlaps

(* What the watch knows against what was mailed.  A mail, file or process   *)
(* that was lost buys one mail that repeats a band; while nothing was lost, *)
(* the band on record is the band mailed.                                  *)
Unused == again + 1 <= lost
Recorded == IF watch.step = "save" THEN watch.new ELSE disk
BandsOK ==
    /\ again <= lost
    /\ told > Recorded => Unused
    /\ lost = 0 => told = Recorded
    /\ watch.step = "mail" => watch.new > disk
    /\ watch.step \in {"dead", "read"} => watch.quota = None
    /\ watch.step \in {"mail", "save"} /\ watch.quota > 0
         => watch.new = LevelOf(watch.quota, watch.spend)

QuotaInv == TypeInv /\ CopiesOK /\ ChainsOK /\ CurrentOK /\ LinesOK /\ BandsOK

-----------------------------------------------------------------------------
(* Types.                                                                  *)
USE DEF None, Ok, B90, B100, Over

LEMMA ConstantTypes ==
  /\ TTL \in Nat /\ TTL >= 1
  /\ MaxEdits \in Nat /\ MaxCalls \in Nat /\ MaxFaults \in Nat
  /\ \A c \in Costs : c \in Nat
  /\ \A n \in Amounts : n \in Nat
  BY QuotaAssumption

LEMMA LevelType ==
  ASSUME NEW q \in Quotas, NEW s \in Nat PROVE LevelOf(q, s) \in Ok..Over
  BY DEF Quotas, LevelOf

LEMMA InitType == Init => TypeInv
<1> SUFFICES ASSUME Init PROVE TypeInv
  OBVIOUS
<1> USE ConstantTypes
<1>1. key \in [quota : Quotas, log : Seq(Entry), spend : Nat]
  BY DEF Init, Quotas
<1>2. cached \in [Instances -> [quota : Quotas, spend : Nat \cup {None}, age : 0..TTL]]
  BY DEF Init, Quotas, Absent
<1>3. admin \in [Admins -> [step : {"idle", "base", "read", "write"}, add : BOOLEAN,
                           amount : Nat, base : Quotas, quota : Quotas, log : Seq(Entry)]]
  BY DEF Init, Quotas, Idle
<1>4. watch \in [step : {"dead", "read", "mail", "save"},
                level : Ok..Over, new : Ok..Over, quota : Quotas, spend : Nat]
  BY DEF Init, Quotas, Blank
<1>5. /\ pending \in Seq(Costs) /\ disk \in Ok..Over
      /\ edits \in 0..MaxEdits /\ calls \in 0..MaxCalls
      /\ faults \in 0..MaxFaults /\ lost \in 0..MaxFaults
      /\ acked \in Nat /\ overlaps \in Nat /\ overFor \in 0..TTL /\ underFor \in 0..TTL
      /\ told \in Ok..Over /\ again \in Nat /\ lost <= faults
  BY DEF Init
<1> QED
  BY <1>1, <1>2, <1>3, <1>4, <1>5 DEF TypeInv, KeyType, AdminType, CacheType, WatchType, CountType, CallsType

LEMMA TypesFollow == TypeInv => TypeOK
  BY DEF TypeInv, TypeOK, KeyType, AdminType, CacheType, WatchType, CountType, CallsType

LEMMA SidesType ==
  ASSUME CountType, Sides PROVE overFor' \in 0..TTL /\ underFor' \in 0..TTL
  BY ConstantTypes DEF CountType, Sides

(* What the requests of an administrator do to the key and its history.    *)
LEMMA MergedShape ==
  ASSUME NEW a \in Admins,
         NEW r \in [step : {"idle", "base", "read", "write"}, add : BOOLEAN,
                    amount : Nat, base : Quotas, quota : Quotas, log : Seq(Entry)]
  PROVE  /\ NewQuota(r) \in Nat
         /\ \E line \in Entry :
              /\ line.from = r.quota /\ line.to = NewQuota(r)
              /\ line.added = IF r.add THEN r.amount ELSE None
              /\ Merged(a, r).log = Append(r.log, line)
         /\ Merged(a, r).quota = NewQuota(r)
         /\ Merged(a, r).log \in Seq(Entry)
<1>1. NewQuota(r) \in Nat
  BY DEF NewQuota, Quotas
<1> DEFINE line == [from |-> r.quota, to |-> NewQuota(r), by |-> a,
                    added |-> IF r.add THEN r.amount ELSE None]
<1>2. line \in Entry
  BY <1>1 DEF Entry, Quotas
<1>3. Merged(a, r) = [quota |-> line.to, log |-> Append(r.log, line)]
  BY DEF Merged
<1>4. line.from = r.quota /\ line.to = NewQuota(r)
      /\ line.added = IF r.add THEN r.amount ELSE None
  OBVIOUS
<1> HIDE DEF line
<1>5. Append(r.log, line) \in Seq(Entry)
  BY <1>2
<1> QED
  BY <1>1, <1>2, <1>3, <1>4, <1>5

LEMMA AskType ==
  ASSUME TypeInv, NEW a \in Admins, NEW n \in Amounts, AskSet(a, n) \/ AskTopUp(a, n)
  PROVE  TypeInv'
<1>0. KeyType /\ AdminType /\ CacheType /\ WatchType /\ CountType /\ CallsType
  BY DEF TypeInv
<1>a. n \in Nat /\ None \in Quotas /\ (<<>> \in Seq(Entry))
  BY ConstantTypes DEF Quotas
<1>1. PICK r \in [step : {"idle", "base", "read", "write"}, add : BOOLEAN,
                  amount : Nat, base : Quotas, quota : Quotas, log : Seq(Entry)] :
        admin' = [admin EXCEPT ![a] = r]
  <2>1. CASE AskSet(a, n)
    BY <1>a, <2>1 DEF AskSet, Idle
  <2>2. CASE AskTopUp(a, n)
    BY <1>a, <2>2 DEF AskTopUp, Idle
  <2> QED
    BY <2>1, <2>2
<1>2. AdminType'
  BY <1>0, <1>1 DEF AdminType
<1>b. edits < MaxEdits /\ edits' = edits + 1
  BY DEF AskSet, AskTopUp
<1>3. UNCHANGED <<key, cached, pending, calls, watch, disk, lost, told, again, overFor,
                  underFor, faults, acked, overlaps>> /\ edits' \in 0..MaxEdits
  <2>1. edits' \in 0..MaxEdits
    BY <1>0, <1>b, ConstantTypes DEF CountType
  <2>2. UNCHANGED <<key, cached, pending, calls, watch, disk, lost, told, again, overFor,
                    underFor, faults, acked, overlaps>>
    BY DEF AskSet, AskTopUp, gateway, watcher, clocks
  <2> QED
    BY <2>1, <2>2
<1>4. KeyType' /\ CacheType' /\ WatchType' /\ CountType' /\ CallsType'
  BY <1>0, <1>3 DEF KeyType, CacheType, WatchType, CountType, CallsType
<1> QED
  BY <1>2, <1>4 DEF TypeInv

LEMMA ReadType ==
  ASSUME TypeInv, NEW a \in Admins, ReadBase(a) \/ ReadKey(a) PROVE TypeInv'
<1>0. KeyType /\ AdminType /\ CacheType /\ WatchType /\ CountType /\ CallsType
  BY DEF TypeInv
<1>2. AdminType'
  <2>1. CASE ReadBase(a)
    <3> DEFINE row == [admin[a] EXCEPT !.step = "read", !.base = key.quota]
               Rows == [step : {"idle", "base", "read", "write"}, add : BOOLEAN,
                        amount : Nat, base : Quotas, quota : Quotas, log : Seq(Entry)]
    <3>1. admin' = [admin EXCEPT ![a] = row]
      BY <1>0, <2>1 DEF ReadBase, AdminType
    <3>2. admin[a] \in Rows /\ key.quota \in Quotas
      BY <1>0 DEF AdminType, KeyType
    <3>3. row \in Rows
      BY ONLY <3>2
    <3> HIDE DEF row
    <3> QED
      BY <1>0, <3>1, <3>3 DEF AdminType
  <2>2. CASE ReadKey(a)
    <3> DEFINE row == [admin[a] EXCEPT !.step = "write", !.quota = key.quota,
                                       !.log = key.log]
               Rows == [step : {"idle", "base", "read", "write"}, add : BOOLEAN,
                        amount : Nat, base : Quotas, quota : Quotas, log : Seq(Entry)]
    <3>1. admin' = [admin EXCEPT ![a] = row]
      BY <1>0, <2>2 DEF ReadKey, AdminType
    <3>2. admin[a] \in Rows /\ key.quota \in Quotas /\ key.log \in Seq(Entry)
      BY <1>0 DEF AdminType, KeyType
    <3>3. row \in Rows
      BY ONLY <3>2
    <3> HIDE DEF row
    <3> QED
      BY <1>0, <3>1, <3>3 DEF AdminType
  <2> QED
    BY <2>1, <2>2
<1>3. UNCHANGED <<key, cached, pending, calls, watch, disk, lost, told, again, overFor,
                  underFor, faults, acked, overlaps, edits>>
  BY DEF ReadBase, ReadKey, gateway, watcher, clocks
<1>4. KeyType' /\ CacheType' /\ WatchType' /\ CountType' /\ CallsType'
  BY <1>0, <1>3 DEF KeyType, CacheType, WatchType, CountType, CallsType
<1> QED
  BY <1>2, <1>4 DEF TypeInv

(* The write: the key as merged, or as it was, and the request is over.    *)
LEMMA WriteEffect ==
  ASSUME TypeInv, NEW a \in Admins, Write(a)
  PROVE  /\ admin[a].step = "write" /\ admin' = [admin EXCEPT ![a] = Idle]
         /\ key'.spend = key.spend
         /\ \/ key' = key /\ acked' = acked /\ overlaps' = overlaps
            \/ /\ acked' \in {acked, acked + 1}
               /\ overlaps' = overlaps + (IF \E b \in Admins \ {a} : Holds(b) THEN 1 ELSE 0)
               /\ key'.quota = Merged(a, admin[a]).quota
               /\ key'.log = Merged(a, admin[a]).log
         /\ KeyType' /\ AdminType'
         /\ faults' \in {faults, faults + 1} /\ faults' \in 0..MaxFaults
         /\ Sides
         /\ UNCHANGED <<cached, pending, calls, watch, disk, lost, told, again, edits>>
<1>0. KeyType /\ AdminType /\ CountType
  BY DEF TypeInv
<1> DEFINE m == Merged(a, admin[a])
           new == [key EXCEPT !.quota = m.quota, !.log = m.log]
           more == overlaps + (IF \E b \in Admins \ {a} : Holds(b) THEN 1 ELSE 0)
<1>1. m.quota \in Quotas /\ m.log \in Seq(Entry)
  BY <1>0, MergedShape DEF AdminType, Quotas
<1> HIDE DEF m
<1>2. /\ new.quota = m.quota /\ new.log = m.log /\ new.spend = key.spend
      /\ new \in [quota : Quotas, log : Seq(Entry), spend : Nat]
  BY ONLY <1>0, <1>1 DEF KeyType
<1> HIDE DEF new, more
<1>a. Land(a) <=> key' = new /\ overlaps' = more
  BY DEF Land, new, m, more
<1>3. \/ key' = new /\ overlaps' = more /\ acked' = acked + 1 /\ UNCHANGED faults
      \/ key' = new /\ overlaps' = more /\ Fault("ack") /\ UNCHANGED acked
      \/ Fault("ack") /\ UNCHANGED <<key, overlaps, acked>>
  BY <1>a DEF Write
<1>4. faults' \in {faults, faults + 1} /\ faults' \in 0..MaxFaults
  BY <1>0, <1>3, ConstantTypes DEF Fault, CountType
<1>5. KeyType'
  BY <1>0, <1>2, <1>3 DEF KeyType
<1>6. /\ admin[a].step = "write" /\ admin' = [admin EXCEPT ![a] = Idle] /\ Sides
      /\ UNCHANGED <<cached, pending, calls, watch, disk, lost, told, again, edits>>
  BY DEF Write, gateway, watcher
<1>7. AdminType'
  <2>1. Idle \in [step : {"idle", "base", "read", "write"}, add : BOOLEAN,
                  amount : Nat, base : Quotas, quota : Quotas, log : Seq(Entry)]
    BY DEF Idle, Quotas
  <2> QED
    BY <1>0, <1>6, <2>1 DEF AdminType
<1>8. key'.spend = key.spend
  BY <1>2, <1>3
<1>9. \/ key' = key /\ acked' = acked /\ overlaps' = overlaps
      \/ /\ acked' \in {acked, acked + 1} /\ overlaps' = more
         /\ key'.quota = m.quota /\ key'.log = m.log
  BY <1>2, <1>3
<1> QED
  BY <1>4, <1>5, <1>6, <1>7, <1>8, <1>9 DEF m, more

LEMMA WriteType == ASSUME TypeInv, NEW a \in Admins, Write(a) PROVE TypeInv'
<1>0. CacheType /\ WatchType /\ CountType /\ CallsType
  BY DEF TypeInv
<1>1. overFor' \in 0..TTL /\ underFor' \in 0..TTL
  BY <1>0, SidesType, WriteEffect
<1>2. acked' \in Nat /\ overlaps' \in Nat
  BY <1>0, WriteEffect DEF CountType
<1>3. CacheType' /\ WatchType' /\ CallsType'
  BY <1>0, WriteEffect DEF CacheType, WatchType, CallsType
<1>4. faults' \in {faults, faults + 1} /\ faults' \in 0..MaxFaults
  BY WriteEffect
<1>5. UNCHANGED <<calls, disk, lost, told, again, edits>>
  BY WriteEffect
<1>6. CountType'
  BY <1>0, <1>1, <1>2, <1>4, <1>5, ConstantTypes DEF CountType
<1> QED
  BY <1>3, <1>6, WriteEffect DEF TypeInv

LEMMA ServeType ==
  ASSUME TypeInv, NEW i \in Instances, Serve(i) PROVE TypeInv'
<1>0. KeyType /\ AdminType /\ CacheType /\ WatchType /\ CountType /\ CallsType
  BY DEF TypeInv
<1>1. /\ KeyType' /\ AdminType' /\ WatchType'
      /\ UNCHANGED <<edits, acked, overlaps, faults, disk, lost, told, again, overFor, underFor>>
  BY <1>0 DEF Serve, Fetch, Drop, Admit, Refuse, dashboard, watcher, clocks,
              KeyType, AdminType, WatchType
<1>2. calls' \in 0..MaxCalls
  BY <1>0, ConstantTypes DEF Serve, Fetch, Drop, Admit, Refuse, CountType
<1>3. CountType'
  BY <1>0, <1>1, <1>2 DEF CountType
<1>4. CallsType'
  BY <1>0 DEF Serve, Fetch, Drop, Admit, Refuse, CallsType
<1>5. CacheType'
  <2>1. Absent \in [quota : Quotas, spend : Nat \cup {None}, age : 0..TTL]
    BY ConstantTypes DEF Absent, Quotas
  <2>2. [quota |-> key.quota, spend |-> key.spend, age |-> 0]
           \in [quota : Quotas, spend : Nat \cup {None}, age : 0..TTL]
    BY <1>0, ConstantTypes DEF KeyType
  <2> QED
    BY <1>0, <2>1, <2>2 DEF Serve, Fetch, Drop, Admit, Refuse, CacheType
<1> QED
  BY <1>1, <1>3, <1>4, <1>5 DEF TypeInv

LEMMA BookType == ASSUME TypeInv, Book PROVE TypeInv'
<1>0. KeyType /\ AdminType /\ CacheType /\ WatchType /\ CountType /\ CallsType
  BY DEF TypeInv
<1>1. Head(pending) \in Nat /\ Tail(pending) \in Seq(Costs)
  BY <1>0, ConstantTypes DEF Book, CallsType
<1>2. KeyType'
  <2>1. key' = [key EXCEPT !.spend = @ + Head(pending)]
    BY DEF Book
  <2> QED
    BY ONLY <1>0, <1>1, <2>1 DEF KeyType
<1>3. overFor' \in 0..TTL /\ underFor' \in 0..TTL
  BY <1>0, SidesType DEF Book
<1>4. AdminType' /\ CacheType' /\ WatchType' /\ CountType' /\ CallsType'
  BY <1>0, <1>1, <1>3 DEF Book, dashboard, watcher, AdminType, CacheType, WatchType,
                           CountType, CallsType
<1> QED
  BY <1>2, <1>4 DEF TypeInv

LEMMA AgedType ==
  ASSUME NEW c \in [quota : Quotas, spend : Nat \cup {None}, age : 0..TTL]
  PROVE  /\ Aged(c) \in [quota : Quotas, spend : Nat \cup {None}, age : 0..TTL]
         /\ Aged(c) # Absent =>
              /\ c # Absent /\ Aged(c).age = c.age + 1 /\ Aged(c).age < TTL
              /\ Aged(c).quota = c.quota /\ Aged(c).spend = c.spend
  BY ConstantTypes DEF Aged, Absent, Quotas

LEMMA TickType == ASSUME TypeInv, Tick PROVE TypeInv'
<1>0. KeyType /\ AdminType /\ CacheType /\ WatchType /\ CountType /\ CallsType
  BY DEF TypeInv
<1>1. CacheType'
  BY <1>0, AgedType DEF Tick, CacheType
<1>2. overFor' \in 0..TTL /\ underFor' \in 0..TTL
  BY <1>0, ConstantTypes DEF Tick, Later, CountType
<1>3. KeyType' /\ AdminType' /\ WatchType' /\ CountType' /\ CallsType'
  BY <1>0, <1>2 DEF Tick, dashboard, watcher, KeyType, AdminType, WatchType,
                           CountType, CallsType
<1> QED
  BY <1>1, <1>3 DEF TypeInv

(* The watch leaves the rest alone.                                        *)
LEMMA WatchFrame ==
  ASSUME TypeInv, Watch
  PROVE  UNCHANGED <<key, cached, pending, calls, admin, edits, acked, overlaps, overFor, underFor>>
  BY DEF Watch, ReadSpend, CannotRead, SendMail, SaveLevel, StopWatch, StartWatch,
         gateway, dashboard, clocks

LEMMA WatchKeepsType == ASSUME TypeInv, Watch PROVE TypeInv'
<1>0. KeyType /\ AdminType /\ CacheType /\ WatchType /\ CountType /\ CallsType
  BY DEF TypeInv
<1>1. Blank \in [step : {"dead", "read", "mail", "save"}, level : Ok..Over,
                 new : Ok..Over, quota : Quotas, spend : Nat]
  BY DEF Blank, Quotas
<1>2. KeyType' /\ AdminType' /\ CacheType' /\ CallsType'
  BY <1>0, WatchFrame DEF KeyType, AdminType, CacheType, CallsType
<1>3. WatchType'
  <2>1. CASE ReadSpend
    <3>1. LevelOf(key.quota, key.spend) \in Ok..Over
      BY <1>0, LevelType DEF KeyType
    <3> QED
      BY <1>0, <2>1, <3>1 DEF ReadSpend, WatchType, KeyType, CountType
  <2>2. CASE CannotRead
    BY <1>0, <2>2 DEF CannotRead, WatchType, CountType
  <2>3. CASE SendMail \/ StartWatch
    BY <1>0, <2>3 DEF SendMail, StartWatch, WatchType
  <2>4. CASE SaveLevel \/ StopWatch
    BY <1>0, <1>1, <2>4 DEF SaveLevel, StopWatch, WatchType
  <2> QED
    BY <2>1, <2>2, <2>3, <2>4 DEF Watch
<1>4. CountType'
  <2>1. /\ faults' \in 0..MaxFaults /\ lost' \in 0..MaxFaults /\ lost' <= faults'
    BY <1>0, ConstantTypes
       DEF Watch, ReadSpend, CannotRead, SendMail, SaveLevel, StopWatch, StartWatch,
           Kept, Loss, Fault, CountType
  <2>2. disk' \in Ok..Over
    BY <1>0 DEF Watch, ReadSpend, CannotRead, SendMail, SaveLevel, StopWatch, StartWatch,
                CountType, WatchType
  <2>3. told' \in Ok..Over /\ again' \in Nat
    <3>1. CASE ReadSpend
      <4>1. LevelOf(key.quota, key.spend) \in Ok..Over
        BY <1>0, LevelType DEF KeyType
      <4> QED
        BY <1>0, <3>1, <4>1 DEF ReadSpend, CountType
    <3>2. CASE SendMail
      BY <1>0, <3>2 DEF SendMail, CountType, WatchType
    <3>3. CASE CannotRead \/ SaveLevel \/ StopWatch \/ StartWatch
      BY <1>0, <3>3 DEF CannotRead, SaveLevel, StopWatch, StartWatch, CountType
    <3> QED
      BY <3>1, <3>2, <3>3 DEF Watch
  <2> QED
    BY <1>0, <2>1, <2>2, <2>3, WatchFrame DEF CountType
<1> QED
  BY <1>2, <1>3, <1>4 DEF TypeInv

LEMMA TypeStep == ASSUME TypeInv, Next PROVE TypeInv'
  BY AskType, ReadType, WriteType, ServeType, BookType, TickType, WatchKeepsType
     DEF Next, Edit

-----------------------------------------------------------------------------
(* The copies of the key.                                                  *)
LEMMA CopiesStep == ASSUME TypeInv, CopiesOK, Next PROVE CopiesOK'
<1> USE ConstantTypes DEF CopiesOK
<1>0. /\ overFor \in Nat /\ underFor \in Nat
      /\ cached \in [Instances -> [quota : Quotas, spend : Nat \cup {None}, age : 0..TTL]]
  BY DEF TypeInv, CountType, CacheType
<1>a. ASSUME Sides, UNCHANGED cached PROVE CopiesOK'
  <2>1. /\ overFor' = IF Spent' /\ Spent THEN overFor ELSE 0
        /\ underFor' = IF Spent' \/ Spent THEN 0 ELSE underFor
    BY <1>a DEF Sides, Spent
  <2>2. /\ Spent' => underFor' = 0
        /\ ~Spent' => overFor' = 0
        /\ overFor' \in {overFor, 0} /\ underFor' \in {underFor, 0}
    BY <2>1
  <2> QED
    BY <1>0, <1>a, <2>2 DEF Blocks
<1>b. ASSUME UNCHANGED <<key, cached, overFor, underFor>> PROVE CopiesOK'
  BY <1>b DEF Spent, Blocks
<1>1. ASSUME NEW a \in Admins, Edit(a) PROVE CopiesOK'
  <2>1. CASE Write(a)
    BY <1>a, <2>1, WriteEffect
  <2>2. CASE ReadBase(a) \/ ReadKey(a) \/ \E n \in Amounts : AskSet(a, n) \/ AskTopUp(a, n)
    BY <1>b, <2>2 DEF ReadBase, ReadKey, AskSet, AskTopUp, gateway, clocks
  <2> QED
    BY <1>1, <2>1, <2>2 DEF Edit
<1>2. ASSUME NEW i \in Instances, Serve(i) PROVE CopiesOK'
  <2>1. CASE Fetch(i)
    <3>1. /\ cached' = [cached EXCEPT ![i] = [quota |-> key.quota, spend |-> key.spend,
                                             age |-> 0]]
          /\ UNCHANGED <<key, overFor, underFor>>
      BY <2>1 DEF Fetch, clocks
    <3>2. cached'[i] = [quota |-> key.quota, spend |-> key.spend, age |-> 0]
          /\ \A j \in Instances \ {i} : cached'[j] = cached[j]
      BY <1>0, <3>1
    <3>3. Blocks(cached'[i].quota, cached'[i].spend) <=> Spent
      BY <3>2 DEF Spent
    <3>4. Spent' <=> Spent
      BY <3>1 DEF Spent
    <3>5. ASSUME NEW j \in Instances, cached'[j] # Absent
          PROVE  /\ cached'[j].age < TTL
                 /\ ~Blocks(cached'[j].quota, cached'[j].spend) => overFor' <= cached'[j].age
                 /\ Blocks(cached'[j].quota, cached'[j].spend) => underFor' <= cached'[j].age
      BY <3>1, <3>2, <3>3, <3>5
    <3> QED
      BY <3>1, <3>4, <3>5
  <2>2. CASE Drop(i)
    <3>1. /\ cached' = [cached EXCEPT ![i] = Absent]
          /\ UNCHANGED <<key, overFor, underFor>>
      BY <2>2 DEF Drop, clocks
    <3>2. \A j \in Instances : cached'[j] # Absent => cached'[j] = cached[j]
      BY <1>0, <3>1
    <3> QED
      BY <3>1, <3>2 DEF Spent, Blocks
  <2>3. CASE Refuse(i) \/ \E c \in Costs : Admit(i, c)
    BY <1>b, <2>3 DEF Refuse, Admit, clocks
  <2> QED
    BY <1>2, <2>1, <2>2, <2>3 DEF Serve
<1>3. CASE Book
  BY <1>a, <1>3 DEF Book
<1>4. CASE Tick
  <2>1. /\ UNCHANGED key
        /\ overFor' = IF Spent THEN Later(overFor) ELSE 0
        /\ underFor' = IF Spent THEN 0 ELSE Later(underFor)
        /\ cached' = [i \in Instances |-> Aged(cached[i])]
    BY <1>4 DEF Tick
  <2>2. Spent' <=> Spent
    BY <2>1 DEF Spent
  <2>3. overFor' <= overFor + 1 /\ underFor' <= underFor + 1
        /\ overFor' \in Nat /\ underFor' \in Nat
    BY <1>0, <2>1 DEF Later
  <2>4. ASSUME NEW j \in Instances, cached'[j] # Absent
        PROVE  /\ cached'[j].age < TTL
               /\ ~Blocks(cached'[j].quota, cached'[j].spend) => overFor' <= cached'[j].age
               /\ Blocks(cached'[j].quota, cached'[j].spend) => underFor' <= cached'[j].age
    <3> DEFINE c == cached[j]
               d == cached'[j]
    <3>1. d = Aged(c)
      BY <2>1
    <3>2. c \in [quota : Quotas, spend : Nat \cup {None}, age : 0..TTL]
      BY <1>0
    <3>3. /\ c # Absent /\ d.age = c.age + 1 /\ d.age < TTL
          /\ d.quota = c.quota /\ d.spend = c.spend
      BY <2>4, <3>1, <3>2, AgedType
    <3>4. /\ ~Blocks(c.quota, c.spend) => overFor <= c.age
          /\ Blocks(c.quota, c.spend) => underFor <= c.age
      BY <3>3
    <3>5. c.age \in Nat
      BY <3>2
    <3> HIDE DEF c, d
    <3>6. /\ ~Blocks(d.quota, d.spend) => overFor' <= d.age
          /\ Blocks(d.quota, d.spend) => underFor' <= d.age
      BY <1>0, <2>3, <3>3, <3>4, <3>5
    <3> QED
      BY <3>3, <3>6 DEF d
  <2> QED
    BY <2>1, <2>2, <2>4
<1>5. CASE Watch
  BY <1>b, <1>5, WatchFrame
<1> QED
  BY <1>1, <1>2, <1>3, <1>4, <1>5 DEF Next

-----------------------------------------------------------------------------
(* The history of the budget.                                              *)
LEMMA ChainExtends ==
  ASSUME NEW log \in Seq(Entry), NEW quota, Chain(log, quota),
         NEW line \in Entry, line.from = quota
  PROVE  Chain(Append(log, line), line.to)
<1> DEFINE more == Append(log, line)
<1>1. /\ Len(log) \in Nat /\ Len(more) = Len(log) + 1 /\ more # <<>>
      /\ \A n \in 1..Len(log) : more[n] = log[n]
      /\ more[Len(log) + 1] = line
      /\ log = <<>> <=> Len(log) = 0
  OBVIOUS
<1> HIDE DEF more
<1>2. ASSUME NEW n \in 1..Len(more)
      PROVE  more[n].from = IF n = 1 THEN None ELSE more[n - 1].to
  <2>1. CASE n = Len(log) + 1
    <3>1. CASE n = 1
      BY <1>1, <2>1, <3>1 DEF Chain
    <3>2. CASE n # 1
      <4>1. log # <<>> /\ n - 1 = Len(log) /\ Len(log) \in 1..Len(log)
        BY <1>1, <2>1, <3>2
      <4>2. quota = log[n - 1].to
        BY <4>1 DEF Chain
      <4> QED
        BY <1>1, <2>1, <3>2, <4>1, <4>2
    <3> QED
      BY <3>1, <3>2
  <2>2. CASE n # Len(log) + 1
    <3>1. n \in 1..Len(log) /\ (n # 1 => n - 1 \in 1..Len(log))
      BY <1>1, <1>2, <2>2
    <3>2. log[n].from = IF n = 1 THEN None ELSE log[n - 1].to
      BY <3>1 DEF Chain
    <3> QED
      BY <1>1, <3>1, <3>2
  <2> QED
    BY <2>1, <2>2
<1>3. line.to = IF more = <<>> THEN None ELSE more[Len(more)].to
  BY <1>1
<1>4. Chain(more, line.to)
  BY <1>2, <1>3 DEF Chain
<1> QED
  BY <1>4 DEF more

(* A new request has read nothing yet.                                     *)
AskEffect(a) ==
    /\ UNCHANGED <<key, acked, overlaps>>
    /\ \A b \in Admins \ {a} : admin'[b] = admin[b]
    /\ admin'[a].step \in {"base", "read"}
    /\ admin'[a].step = "read" => ~admin'[a].add

LEMMA AskHasEffect ==
  ASSUME AdminType, NEW a \in Admins, NEW n \in Amounts, AskSet(a, n) \/ AskTopUp(a, n)
  PROVE  AskEffect(a)
<1>1. CASE AskSet(a, n)
  <2> DEFINE r == [Idle EXCEPT !.step = "read", !.amount = n]
  <2>1. r.step = "read" /\ r.add = FALSE
    BY DEF Idle
  <2>2. admin' = [admin EXCEPT ![a] = r] /\ UNCHANGED <<key, acked, overlaps>>
    BY <1>1 DEF AskSet
  <2> HIDE DEF r
  <2> QED
    BY <2>1, <2>2 DEF AdminType, AskEffect
<1>2. CASE AskTopUp(a, n)
  <2> DEFINE r == [Idle EXCEPT !.step = "base", !.amount = n, !.add = TRUE]
  <2>1. r.step = "base"
    BY DEF Idle
  <2>2. admin' = [admin EXCEPT ![a] = r] /\ UNCHANGED <<key, acked, overlaps>>
    BY <1>2 DEF AskTopUp
  <2> HIDE DEF r
  <2> QED
    BY <2>1, <2>2 DEF AdminType, AskEffect
<1> QED
  BY <1>1, <1>2

LEMMA ChainsStep == ASSUME TypeInv, ChainsOK, Next PROVE ChainsOK'
<1>0. KeyType /\ AdminType
  BY DEF TypeInv
<1>a. ASSUME UNCHANGED <<key, admin>> PROVE ChainsOK'
  BY <1>a DEF ChainsOK, Chain
<1>1. ASSUME NEW a \in Admins, Edit(a) PROVE ChainsOK'
  <2>1. CASE Write(a)
    <3> DEFINE r == admin[a]
    <3>1. r \in [step : {"idle", "base", "read", "write"}, add : BOOLEAN, amount : Nat,
                 base : Quotas, quota : Quotas, log : Seq(Entry)]
      BY <1>0 DEF AdminType
    <3>2. Chain(r.log, r.quota)
      BY <2>1, WriteEffect DEF ChainsOK
    <3>3. PICK line \in Entry :
            /\ line.from = r.quota /\ line.to = NewQuota(r)
            /\ Merged(a, r).log = Append(r.log, line)
            /\ Merged(a, r).quota = NewQuota(r)
      BY <3>1, MergedShape
    <3>4. Chain(Merged(a, r).log, Merged(a, r).quota)
      BY <3>1, <3>2, <3>3, ChainExtends
    <3>5. Chain(key'.log, key'.quota)
      BY <2>1, <3>4, WriteEffect DEF ChainsOK
    <3>6. \A b \in Admins : admin'[b].step = "write" => admin'[b] = admin[b]
      BY <1>0, <2>1, WriteEffect DEF AdminType, Idle
    <3>7. \A b \in Admins : admin'[b].step = "write" => Chain(admin'[b].log, admin'[b].quota)
      BY <3>6 DEF ChainsOK
    <3> QED
      BY <3>5, <3>7 DEF ChainsOK, Chain
  <2>2. CASE ReadKey(a)
    <3>1. /\ UNCHANGED key
          /\ \A b \in Admins \ {a} : admin'[b] = admin[b]
          /\ admin'[a].quota = key.quota /\ admin'[a].log = key.log
      BY <1>0, <2>2 DEF ReadKey, AdminType
    <3>2. \A b \in Admins : admin'[b].step = "write" => Chain(admin'[b].log, admin'[b].quota)
      BY <3>1 DEF ChainsOK
    <3>3. Chain(key'.log, key'.quota)
      BY <3>1 DEF ChainsOK
    <3> QED
      BY <3>2, <3>3 DEF ChainsOK, Chain
  <2>3. CASE ReadBase(a) \/ \E n \in Amounts : AskSet(a, n) \/ AskTopUp(a, n)
    <3>1. UNCHANGED key /\ \A b \in Admins : admin'[b].step = "write" => admin'[b] = admin[b]
      <4>1. CASE ReadBase(a)
        <5>1. UNCHANGED key /\ \A b \in Admins \ {a} : admin'[b] = admin[b]
          BY <1>0, <4>1 DEF ReadBase, AdminType
        <5>2. admin'[a].step = "read"
          BY <1>0, <4>1 DEF ReadBase, AdminType
        <5> QED
          BY <5>1, <5>2
      <4>2. ASSUME NEW n \in Amounts, AskSet(a, n) \/ AskTopUp(a, n)
            PROVE  UNCHANGED key /\ \A b \in Admins : admin'[b].step = "write" => admin'[b] = admin[b]
        <5>1. AskEffect(a)
          BY <1>0, <4>2, AskHasEffect
        <5> QED
          BY <5>1 DEF AskEffect
      <4> QED
        BY <2>3, <4>1, <4>2
    <3>2. \A b \in Admins : admin'[b].step = "write" => Chain(admin'[b].log, admin'[b].quota)
      BY <3>1 DEF ChainsOK
    <3>3. Chain(key'.log, key'.quota)
      BY <3>1 DEF ChainsOK
    <3> QED
      BY <3>2, <3>3 DEF ChainsOK, Chain
  <2> QED
    BY <1>1, <2>1, <2>2, <2>3 DEF Edit
<1>2. CASE Book
  <2>1. /\ key' = [key EXCEPT !.spend = @ + Head(pending)]
        /\ UNCHANGED admin
    BY <1>2 DEF Book, dashboard
  <2>2. key'.log = key.log /\ key'.quota = key.quota
    BY <1>0, <2>1 DEF KeyType
  <2> QED
    BY <2>1, <2>2 DEF ChainsOK, Chain
<1>3. CASE Tick \/ \E i \in Instances : Serve(i)
  BY <1>a, <1>3 DEF Tick, Serve, Fetch, Drop, Admit, Refuse, dashboard
<1>4. CASE Watch
  BY <1>a, <1>4, WatchFrame
<1> QED
  BY <1>1, <1>2, <1>3, <1>4 DEF Next

(* A top-up that wrote from the budget in force.                           *)
LEMMA TopUpExtends ==
  ASSUME NEW log \in Seq(Entry), NEW line \in Entry,
         \A n \in 1..Len(log) :
            log[n].added # None =>
               log[n].to = log[n].added + (IF log[n].from = None THEN 0 ELSE log[n].from),
         line.added # None =>
            line.to = line.added + (IF line.from = None THEN 0 ELSE line.from),
         NEW more, more = Append(log, line)
  PROVE  /\ Len(more) = Len(log) + 1
         /\ \A n \in 1..Len(more) :
              more[n].added # None =>
                 more[n].to = more[n].added + (IF more[n].from = None THEN 0 ELSE more[n].from)
<1>1. /\ Len(log) \in Nat /\ Len(more) = Len(log) + 1
      /\ \A n \in 1..Len(log) : more[n] = log[n]
      /\ more[Len(log) + 1] = line
  OBVIOUS
<1>2. ASSUME NEW n \in 1..Len(more), more[n].added # None
      PROVE  more[n].to = more[n].added + (IF more[n].from = None THEN 0 ELSE more[n].from)
  <2>1. CASE n = Len(log) + 1
    BY <1>1, <1>2, <2>1
  <2>2. CASE n # Len(log) + 1
    <3>1. n \in 1..Len(log) /\ more[n] = log[n]
      BY <1>1, <1>2, <2>2
    <3> QED
      BY <1>2, <3>1
  <2> QED
    BY <2>1, <2>2
<1> QED
  BY <1>1, <1>2

(* What an edit does to requests: its own moves, the others stay.          *)
LEMMA OthersStay ==
  ASSUME AdminType, NEW a \in Admins, Edit(a)
  PROVE  \A b \in Admins \ {a} : admin'[b] = admin[b] /\ (Holds(b)' <=> Holds(b))
<1>1. ASSUME NEW r, admin' = [admin EXCEPT ![a] = r]
      PROVE  \A b \in Admins \ {a} : admin'[b] = admin[b]
  BY <1>1 DEF AdminType
<1>2. \E r : admin' = [admin EXCEPT ![a] = r]
  <2>1. CASE ReadBase(a)
    BY <2>1 DEF ReadBase, AdminType
  <2>2. CASE ReadKey(a)
    BY <2>2 DEF ReadKey, AdminType
  <2>3. CASE Write(a)
    BY <2>3 DEF Write
  <2>4. CASE \E n \in Amounts : AskSet(a, n) \/ AskTopUp(a, n)
    BY <2>4 DEF AskSet, AskTopUp
  <2> QED
    BY <2>1, <2>2, <2>3, <2>4 DEF Edit
<1>3. \A b \in Admins \ {a} : admin'[b] = admin[b]
  BY <1>1, <1>2
<1> QED
  BY <1>3 DEF Holds

(* The three ways an administrator's own row can move without a write.     *)
LEMMA ReadEffect ==
  ASSUME AdminType, NEW a \in Admins,
         ReadBase(a) \/ ReadKey(a) \/ \E n \in Amounts : AskSet(a, n) \/ AskTopUp(a, n)
  PROVE  /\ UNCHANGED <<key, acked, overlaps>>
         /\ admin'[a].step = "write" =>
              /\ admin'[a].quota = key.quota /\ admin'[a].log = key.log
              /\ admin'[a].add = admin[a].add /\ admin'[a].base = admin[a].base
              /\ admin[a].step = "read"
         /\ admin'[a].step = "read" /\ admin'[a].add => admin'[a].base = key.quota
<1>1. CASE ReadBase(a)
  <2>1. UNCHANGED <<key, acked, overlaps>> /\ admin' = [admin EXCEPT ![a].step = "read", ![a].base = key.quota]
    BY <1>1 DEF ReadBase
  <2>2. admin'[a].base = key.quota /\ admin'[a].step = "read"
    BY <2>1 DEF AdminType
  <2> QED
    BY <2>1, <2>2
<1>2. CASE ReadKey(a)
  <2>1. /\ UNCHANGED <<key, acked, overlaps>> /\ admin[a].step = "read"
        /\ admin' = [admin EXCEPT ![a].step = "write", ![a].quota = key.quota, ![a].log = key.log]
    BY <1>2 DEF ReadKey
  <2>2. /\ admin'[a].quota = key.quota /\ admin'[a].log = key.log /\ admin'[a].step = "write"
        /\ admin'[a].add = admin[a].add /\ admin'[a].base = admin[a].base
    BY <2>1 DEF AdminType
  <2> QED
    BY <2>1, <2>2
<1>3. ASSUME NEW n \in Amounts, AskSet(a, n) \/ AskTopUp(a, n)
      PROVE  /\ UNCHANGED <<key, acked, overlaps>> /\ admin'[a].step # "write"
             /\ ~(admin'[a].step = "read" /\ admin'[a].add)
  BY <1>3, AskHasEffect DEF AskEffect
<1> QED
  BY <1>1, <1>2, <1>3

(* While nothing was written under another request, every request writes   *)
(* from the key as it is.                                                  *)
LEMMA CurrentStep == ASSUME TypeInv, CurrentOK, Next PROVE CurrentOK'
<1>0. KeyType /\ AdminType /\ overlaps \in Nat
  BY DEF TypeInv, CountType
<1>a. ASSUME key'.log = key.log, key'.quota = key.quota, UNCHANGED <<admin, overlaps>>
      PROVE  CurrentOK'
  BY <1>a DEF CurrentOK, Current, Holds, TopUpAdds
<1>1. ASSUME NEW a \in Admins, Edit(a) PROVE CurrentOK'
  <2>a. \A b \in Admins \ {a} : admin'[b] = admin[b] /\ (Holds(b)' <=> Holds(b))
    BY <1>0, <1>1, OthersStay
  <2>1. CASE Write(a)
    <3> SUFFICES ASSUME overlaps' = 0 PROVE TopUpAdds' /\ \A b \in Admins : Current(b)'
      BY DEF CurrentOK
    <3> DEFINE r == admin[a]
    <3>1. r \in [step : {"idle", "base", "read", "write"}, add : BOOLEAN, amount : Nat,
                 base : Quotas, quota : Quotas, log : Seq(Entry)]
      BY <1>0 DEF AdminType
    <3>2. PICK line \in Entry :
            /\ line.from = r.quota /\ line.to = NewQuota(r)
            /\ line.added = IF r.add THEN r.amount ELSE None
            /\ Merged(a, r).log = Append(r.log, line)
      BY <3>1, MergedShape
    <3>3. \/ key' = key /\ overlaps' = overlaps
          \/ /\ key'.log = Append(r.log, line)
             /\ overlaps' = overlaps + (IF \E b \in Admins \ {a} : Holds(b) THEN 1 ELSE 0)
      BY <2>1, <3>2, WriteEffect
    <3>4. overlaps = 0
      BY <1>0, <3>3
    <3>5. TopUpAdds /\ \A b \in Admins : Current(b)
      BY <3>4 DEF CurrentOK
    <3>6. admin'[a].step = "idle"
      BY <1>0, <2>1, WriteEffect DEF AdminType, Idle
    <3>7. Current(a)'
      BY <3>6 DEF Current, Holds
    <3>8. CASE key' = key
      <4>1. \A b \in Admins \ {a} : Current(b)'
        BY <2>a, <3>5, <3>8 DEF Current
      <4> QED
        BY <3>5, <3>7, <3>8, <4>1 DEF TopUpAdds
    <3>9. CASE /\ key'.log = Append(r.log, line)
               /\ overlaps' = overlaps + (IF \E b \in Admins \ {a} : Holds(b) THEN 1 ELSE 0)
      <4>1. \A b \in Admins \ {a} : ~Holds(b)
        BY <3>4, <3>9
      <4>2. \A b \in Admins \ {a} : Current(b)'
        BY <2>a, <4>1 DEF Current, Holds
      <4>3. r.step = "write"
        BY <2>1, WriteEffect
      <4>4. r.quota = key.quota /\ r.log = key.log /\ (r.add => r.base = key.quota)
        BY <3>5, <4>3 DEF Current, Holds
      <4>5. line.added # None => line.to = line.added + (IF line.from = None THEN 0 ELSE line.from)
        BY <3>1, <3>2, <4>4 DEF NewQuota
      <4>6. key.log \in Seq(Entry)
        BY <1>0 DEF KeyType
      <4>7. \A n \in 1..Len(key.log) :
              key.log[n].added # None =>
                 key.log[n].to = key.log[n].added
                                 + (IF key.log[n].from = None THEN 0 ELSE key.log[n].from)
        BY <3>5 DEF TopUpAdds
      <4>8. key'.log = Append(key.log, line)
        BY <3>9, <4>4
      <4>9. \A n \in 1..Len(key'.log) :
              key'.log[n].added # None =>
                 key'.log[n].to = key'.log[n].added
                                  + (IF key'.log[n].from = None THEN 0 ELSE key'.log[n].from)
        BY <4>5, <4>6, <4>7, <4>8, TopUpExtends
      <4>10. TopUpAdds'
        BY <4>9 DEF TopUpAdds
      <4> QED
        BY <3>7, <4>2, <4>10
    <3> QED
      BY <3>3, <3>8, <3>9
  <2>2. CASE ReadBase(a) \/ ReadKey(a) \/ \E n \in Amounts : AskSet(a, n) \/ AskTopUp(a, n)
    <3> SUFFICES ASSUME overlaps' = 0 PROVE TopUpAdds' /\ \A b \in Admins : Current(b)'
      BY DEF CurrentOK
    <3>1. /\ UNCHANGED <<key, acked, overlaps>>
          /\ admin'[a].step = "write" =>
               /\ admin'[a].quota = key.quota /\ admin'[a].log = key.log
               /\ admin'[a].add = admin[a].add /\ admin'[a].base = admin[a].base
               /\ admin[a].step = "read"
          /\ admin'[a].step = "read" /\ admin'[a].add => admin'[a].base = key.quota
      BY <1>0, <2>2, ReadEffect
    <3>2. TopUpAdds /\ \A b \in Admins : Current(b)
      BY <3>1 DEF CurrentOK
    <3>3. Current(a)'
      BY <3>1, <3>2 DEF Current, Holds
    <3>4. \A b \in Admins \ {a} : Current(b)'
      BY <2>a, <3>1, <3>2 DEF Current
    <3> QED
      BY <3>1, <3>2, <3>3, <3>4 DEF TopUpAdds
  <2> QED
    BY <1>1, <2>1, <2>2 DEF Edit
<1>2. CASE Book
  <2>1. key' = [key EXCEPT !.spend = @ + Head(pending)] /\ UNCHANGED <<admin, overlaps>>
    BY <1>2 DEF Book, dashboard
  <2>2. key'.log = key.log /\ key'.quota = key.quota
    BY <1>0, <2>1 DEF KeyType
  <2> QED
    BY <1>a, <2>1, <2>2
<1>3. CASE Tick \/ \E i \in Instances : Serve(i)
  <2>1. UNCHANGED <<key, admin, overlaps>>
    BY <1>3 DEF Tick, Serve, Fetch, Drop, Admit, Refuse, dashboard
  <2> QED
    BY <1>a, <2>1
<1>4. CASE Watch
  BY <1>a, <1>4, WatchFrame
<1> QED
  BY <1>1, <1>2, <1>3, <1>4 DEF Next

(* A write under another request costs at most the line it writes.         *)
LEMMA LinesStep == ASSUME TypeInv, LinesOK, Next PROVE LinesOK'
<1>0. KeyType /\ AdminType /\ acked \in Nat /\ overlaps \in Nat
  BY DEF TypeInv, CountType
<1>b. /\ Len(key.log) \in Nat
      /\ \A b \in Admins : admin[b].log \in Seq(Entry) /\ Len(admin[b].log) \in Nat
  BY <1>0 DEF KeyType, AdminType
<1>a. ASSUME key'.log = key.log, UNCHANGED <<admin, acked, overlaps>> PROVE LinesOK'
  BY <1>a DEF LinesOK, NoLineLost
<1>1. ASSUME NEW a \in Admins, Edit(a) PROVE LinesOK'
  <2>a. \A b \in Admins \ {a} : admin'[b] = admin[b]
    BY <1>0, <1>1, OthersStay
  <2>1. CASE Write(a)
    <3> DEFINE r == admin[a]
    <3>1. r \in [step : {"idle", "base", "read", "write"}, add : BOOLEAN, amount : Nat,
                 base : Quotas, quota : Quotas, log : Seq(Entry)]
      BY <1>0 DEF AdminType
    <3>2. PICK line \in Entry : Merged(a, r).log = Append(r.log, line)
      BY <3>1, MergedShape
    <3>3. Len(Append(r.log, line)) = Len(r.log) + 1
      BY <1>b
    <3>4. admin'[a].step = "idle" /\ r.step = "write"
      BY <1>0, <2>1, WriteEffect DEF AdminType, Idle
    <3>5. \/ key' = key /\ acked' = acked /\ overlaps' = overlaps
          \/ /\ acked' \in {acked, acked + 1} /\ key'.log = Append(r.log, line)
             /\ overlaps' = overlaps + (IF \E b \in Admins \ {a} : Holds(b) THEN 1 ELSE 0)
      BY <2>1, <3>2, WriteEffect
    <3>6. CASE key' = key /\ acked' = acked /\ overlaps' = overlaps
      BY <2>a, <3>4, <3>6 DEF LinesOK, NoLineLost
    <3>7. CASE /\ acked' \in {acked, acked + 1} /\ key'.log = Append(r.log, line)
               /\ overlaps' = overlaps + (IF \E b \in Admins \ {a} : Holds(b) THEN 1 ELSE 0)
      <4>1. acked <= Len(r.log) + overlaps
        BY <3>4 DEF LinesOK
      <4>2. NoLineLost'
        <5>1. Len(key'.log) = Len(r.log) + 1
          BY <3>3, <3>7
        <5>2. acked' <= acked + 1 /\ overlaps <= overlaps' /\ overlaps' \in Nat /\ acked' \in Nat
          BY <1>0, <3>7
        <5>3. ASSUME NEW n \in Nat, n = Len(r.log) PROVE acked' <= n + 1 + overlaps'
          BY <1>0, <4>1, <5>2, <5>3
        <5>4. acked' <= Len(r.log) + 1 + overlaps'
          BY <1>b, <5>3
        <5> QED
          BY <5>1, <5>4 DEF NoLineLost
      <4>3. ASSUME NEW b \in Admins, admin'[b].step = "write"
            PROVE  acked' <= Len(admin'[b].log) + overlaps'
        <5>1. b \in Admins \ {a} /\ admin'[b] = admin[b]
          BY <2>a, <3>4, <4>3
        <5>2. Holds(b)
          BY <4>3, <5>1 DEF Holds
        <5>3. overlaps' = overlaps + 1
          BY <3>7, <5>1, <5>2
        <5>4. acked <= Len(admin[b].log) + overlaps
          BY <4>3, <5>1 DEF LinesOK
        <5>5. acked' \in Nat /\ acked' <= acked + 1
          BY <1>0, <3>7
        <5>6. ASSUME NEW n \in Nat, n = Len(admin[b].log) PROVE acked' <= n + overlaps'
          <6>1. acked <= n + overlaps
            BY <5>4, <5>6
          <6>2. acked \in Nat /\ overlaps \in Nat
            BY <1>0
          <6> QED
            BY <5>3, <5>5, <6>1, <6>2
        <5> QED
          BY <1>b, <5>1, <5>6
      <4> QED
        BY <4>2, <4>3 DEF LinesOK
    <3> QED
      BY <3>5, <3>6, <3>7
  <2>2. CASE ReadBase(a) \/ ReadKey(a) \/ \E n \in Amounts : AskSet(a, n) \/ AskTopUp(a, n)
    <3>1. /\ UNCHANGED <<key, acked, overlaps>>
          /\ admin'[a].step = "write" => admin'[a].log = key.log
      BY <1>0, <2>2, ReadEffect
    <3> QED
      BY <2>a, <3>1 DEF LinesOK, NoLineLost
  <2> QED
    BY <1>1, <2>1, <2>2 DEF Edit
<1>2. CASE Book
  <2>1. key' = [key EXCEPT !.spend = @ + Head(pending)] /\ UNCHANGED <<admin, acked, overlaps>>
    BY <1>2 DEF Book, dashboard
  <2>2. key'.log = key.log
    BY <1>0, <2>1 DEF KeyType
  <2> QED
    BY <1>a, <2>1, <2>2
<1>3. CASE Tick \/ \E i \in Instances : Serve(i)
  <2>1. UNCHANGED <<key, admin, acked, overlaps>>
    BY <1>3 DEF Tick, Serve, Fetch, Drop, Admit, Refuse, dashboard
  <2> QED
    BY <1>a, <2>1
<1>4. CASE Watch
  BY <1>a, <1>4, WatchFrame
<1> QED
  BY <1>1, <1>2, <1>3, <1>4 DEF Next

-----------------------------------------------------------------------------
(* The bands.                                                              *)
LEMMA BandsStep == ASSUME TypeInv, BandsOK, Next PROVE BandsOK'
<1> USE DEF BandsOK, Unused, Recorded
<1>0. /\ again \in Nat /\ lost \in Nat /\ told \in 0..3 /\ disk \in 0..3
      /\ watch \in [step : {"dead", "read", "mail", "save"}, level : Ok..Over,
                    new : Ok..Over, quota : Quotas, spend : Nat]
  BY DEF TypeInv, CountType, WatchType
<1>1. Blank.step = "dead" /\ Blank.quota = None
  BY DEF Blank
<1>2. [Blank EXCEPT !.step = "read"].step = "read" /\ [Blank EXCEPT !.step = "read"].quota = None
  BY DEF Blank
<1>3. CASE ReadSpend
  <2> DEFINE n == LevelOf(key.quota, key.spend)
  <2>1. n \in 0..3
    BY LevelType DEF TypeInv, KeyType
  <2>2. /\ watch.step = "read"
        /\ watch' = [watch EXCEPT !.level = disk, !.new = n, !.quota = key.quota,
                       !.spend = key.spend, !.step = IF n > disk THEN "mail" ELSE "save"]
        /\ told' = IF n < told THEN n ELSE told
        /\ UNCHANGED <<disk, lost, again>>
    BY <1>3 DEF ReadSpend
  <2> HIDE DEF n
  <2>3. /\ watch'.step = IF n > disk THEN "mail" ELSE "save"
        /\ watch'.new = n /\ watch'.quota = key.quota /\ watch'.spend = key.spend
    BY ONLY <1>0, <2>2
  <2>4. watch'.new = LevelOf(watch'.quota, watch'.spend)
    BY <2>3 DEF n
  <2> HIDE DEF LevelOf
  <2>5. /\ told' > (IF watch'.step = "save" THEN watch'.new ELSE disk') => again' + 1 <= lost'
        /\ lost' = 0 => told' = (IF watch'.step = "save" THEN watch'.new ELSE disk')
    BY <1>0, <2>1, <2>2, <2>3
  <2> QED
    BY <2>2, <2>3, <2>4, <2>5
<1>4. CASE CannotRead
  <2>1. /\ watch.step = "read" /\ watch' = [watch EXCEPT !.step = "save", !.level = disk, !.new = disk]
        /\ UNCHANGED <<disk, lost, told, again>>
    BY <1>4 DEF CannotRead
  <2>2. watch'.step = "save" /\ watch'.new = disk /\ watch'.quota = watch.quota
    BY ONLY <1>0, <2>1
  <2> QED
    BY <2>1, <2>2
<1>5. CASE SendMail
  <2>1. /\ watch.step = "mail" /\ watch' = [watch EXCEPT !.step = "save"]
        /\ UNCHANGED disk
        /\ \/ /\ told' = watch.new /\ lost' = lost
              /\ again' = IF told >= watch.new THEN again + 1 ELSE again
           \/ lost' = lost + 1 /\ UNCHANGED <<told, again>>
    BY <1>5 DEF SendMail, Kept, Loss
  <2>2. /\ watch'.step = "save" /\ watch'.new = watch.new /\ watch'.quota = watch.quota
        /\ watch'.spend = watch.spend /\ watch.new \in 0..3
    BY ONLY <1>0, <2>1
  <2>3. /\ again' <= lost'
        /\ told' > watch.new => again' + 1 <= lost'
        /\ lost' = 0 => told' = watch.new
    BY <1>0, <2>1, <2>2
  <2> QED
    BY <2>1, <2>2, <2>3
<1>6. CASE SaveLevel
  <2>1. /\ watch.step = "save" /\ watch'.step = "read" /\ watch'.quota = None
        /\ UNCHANGED <<told, again>>
        /\ \/ disk' = watch.new /\ lost' = lost
           \/ lost' = lost + 1 /\ UNCHANGED disk
    BY <1>2, <1>6 DEF SaveLevel, Kept, Loss
  <2> QED
    BY <1>0, <2>1
<1>7. CASE StopWatch
  <2>1. /\ watch'.step = "dead" /\ watch'.quota = None
        /\ lost' = lost + 1 /\ UNCHANGED <<told, again, disk>>
    BY <1>1, <1>7 DEF StopWatch, Loss
  <2> QED
    BY <1>0, <2>1
<1>8. CASE StartWatch
  <2>1. /\ watch.step = "dead" /\ watch'.step = "read" /\ watch'.quota = watch.quota
        /\ UNCHANGED <<told, again, disk, lost>>
    BY <1>0, <1>8 DEF StartWatch
  <2> QED
    BY <2>1
<1>9. ASSUME UNCHANGED <<watch, disk, lost, told, again>> PROVE BandsOK'
  BY <1>9 DEF LevelOf
<1>10. ASSUME NEW a \in Admins, Edit(a) PROVE BandsOK'
  <2>1. UNCHANGED <<watch, disk, lost, told, again>>
    BY <1>10 DEF Edit, AskSet, AskTopUp, ReadBase, ReadKey, Write, watcher
  <2> QED
    BY <1>9, <2>1
<1>11. CASE Book \/ Tick \/ \E i \in Instances : Serve(i)
  <2>1. UNCHANGED <<watch, disk, lost, told, again>>
    BY <1>11 DEF Book, Tick, Serve, Fetch, Drop, Admit, Refuse, watcher
  <2> QED
    BY <1>9, <2>1
<1> QED
  BY <1>3, <1>4, <1>5, <1>6, <1>7, <1>8, <1>10, <1>11 DEF Next, Watch

-----------------------------------------------------------------------------
(* The invariant, and what follows from it.                                *)
LEMMA InitQuota == Init => QuotaInv
<1> SUFFICES ASSUME Init PROVE QuotaInv
  OBVIOUS
<1> USE ConstantTypes
<1>1. key.quota = None /\ key.log = <<>> /\ key.spend = 0 /\ Len(key.log) = 0
  BY DEF Init
<1>2. \A a \in Admins : admin[a].step = "idle"
  BY DEF Init, Idle
<1>3. watch.step = "read" /\ watch.quota = None
  BY DEF Init, Blank
<1>4. \A i \in Instances : cached[i] = Absent
  BY DEF Init
<1>5. CopiesOK
  BY <1>1, <1>4 DEF Init, CopiesOK, Spent, Blocks
<1>6. ChainsOK
  BY <1>1, <1>2 DEF ChainsOK, Chain
<1>7. CurrentOK /\ LinesOK
  BY <1>1, <1>2 DEF Init, CurrentOK, Current, Holds, LinesOK, TopUpAdds, NoLineLost
<1>8. BandsOK
  BY <1>3 DEF Init, BandsOK, Unused, Recorded
<1> QED
  BY <1>5, <1>6, <1>7, <1>8, InitType DEF QuotaInv

LEMMA QuotaStep == QuotaInv /\ [Next]_vars => QuotaInv'
<1> SUFFICES ASSUME QuotaInv, [Next]_vars PROVE QuotaInv'
  OBVIOUS
<1>1. CASE Next
  BY <1>1, TypeStep, CopiesStep, ChainsStep, CurrentStep, LinesStep, BandsStep DEF QuotaInv
<1>2. CASE UNCHANGED vars
  <2>1. TypeInv'
    BY <1>2 DEF QuotaInv, vars, TypeInv, KeyType, AdminType, CacheType, WatchType,
                CountType, CallsType
  <2>2. CopiesOK'
    BY <1>2 DEF QuotaInv, vars, CopiesOK, Spent, Blocks
  <2>3. ChainsOK'
    BY <1>2 DEF QuotaInv, vars, ChainsOK, Chain
  <2>4. BandsOK'
    BY <1>2 DEF QuotaInv, vars, BandsOK, Unused, Recorded, LevelOf
  <2>5. CurrentOK' /\ LinesOK'
    BY <1>2 DEF QuotaInv, vars, CurrentOK, Current, Holds, LinesOK, TopUpAdds, NoLineLost
  <2> QED
    BY <2>1, <2>2, <2>3, <2>4, <2>5 DEF QuotaInv
<1> QED
  BY <1>1, <1>2

LEMMA QuotaAlways == Spec => []QuotaInv
  BY InitQuota, QuotaStep, PTL DEF Spec

(* HistoryChains: the history in the metadata is that of the budget however *)
(* many administrators write at once and whatever answers are lost: a write *)
(* loses the lines of another, but never tells a history that was not.      *)
THEOREM HistoryNeverBreaks == Spec => []HistoryChains
<1>1. QuotaInv => HistoryChains
  BY DEF QuotaInv, ChainsOK, Chain, HistoryChains
<1> QED
  BY <1>1, QuotaAlways, PTL

(* HistoryIsWhole: confirmed lines are lost only to writes made while        *)
(* another request was between its read and its write, at most one to each; *)
(* and while there was none, a top-up adds what was asked to the budget in  *)
(* force (`_merge`, set_quota, quota_top_up).                              *)
THEOREM HistoryIsComplete == Spec => []HistoryIsWhole
<1>1. QuotaInv => HistoryIsWhole
  BY TypesFollow DEF QuotaInv, ChainsOK, Chain, HistoryChains, CurrentOK, LinesOK, HistoryIsWhole
<1> QED
  BY <1>1, QuotaAlways, PTL

(* SpentIsToldOnce: a spent budget the watch has read is told unless it lost*)
(* something, and a band is told again only for something lost (`tick`,     *)
(* `rose`, save_state).                                                    *)
THEOREM SpentIsAlwaysTold == Spec => []SpentIsToldOnce
<1>1. QuotaInv => SpentIsToldOnce
  <2> SUFFICES ASSUME QuotaInv PROVE SpentIsTold /\ RepeatsAreLosses
    BY DEF SpentIsToldOnce
  <2>1. RepeatsAreLosses
    BY DEF QuotaInv, BandsOK, RepeatsAreLosses
  <2>2. SpentIsTold
    <3> SUFFICES ASSUME watch.step = "save", watch.quota > 0,
                        Blocks(watch.quota, watch.spend), lost = 0
                 PROVE  told >= B100
      BY DEF SpentIsTold
    <3>1. told = watch.new /\ watch.new = LevelOf(watch.quota, watch.spend)
      BY DEF QuotaInv, BandsOK, Recorded
    <3>2. watch.quota \in Nat /\ watch.spend \in Nat /\ watch.spend >= watch.quota
      BY DEF QuotaInv, TypeInv, WatchType, Quotas, Blocks
    <3> DEFINE q == watch.quota
               s == watch.spend
    <3>3. LevelOf(q, s) \in {B100, Over}
      <4>1. q \in Nat /\ s \in Nat /\ q > 0 /\ s >= q
        BY <3>2
      <4> HIDE DEF q, s
      <4>2. LevelOf(q, s) = IF 10 * s >= 11 * q THEN Over ELSE B100
        BY <4>1 DEF LevelOf
      <4> QED
        BY <4>2
    <3> QED
      BY <3>1, <3>3
  <2> QED
    BY <2>1, <2>2
<1> QED
  BY <1>1, QuotaAlways, PTL

(* VerdictsFollowTheKey: no instance admits a call of a key that has been   *)
(* spent for user_api_key_cache_ttl, nor refuses one so long after a top-up.*)
THEOREM VerdictsAreFresh == Spec => VerdictsFollowTheKey
<1> DEFINE Follows == /\ Len(pending') > Len(pending) => overFor < TTL
                      /\ calls' > calls /\ pending' = pending => underFor < TTL
<1>1. QuotaInv /\ [Next]_vars => [Follows]_vars
  <2> SUFFICES ASSUME QuotaInv, Next PROVE Follows
    OBVIOUS
  <2> USE ConstantTypes
  <2>0. /\ pending \in Seq(Costs) /\ calls \in Nat /\ overFor \in Nat /\ underFor \in Nat
        /\ cached \in [Instances -> [quota : Quotas, spend : Nat \cup {None}, age : 0..TTL]]
    BY DEF QuotaInv, TypeInv, CountType, CallsType, CacheType
  <2>1. ASSUME NEW i \in Instances, NEW c \in Costs, Admit(i, c) PROVE Follows
    <3>1. overFor <= cached[i].age /\ cached[i].age < TTL /\ cached[i].age \in Nat
      BY <2>0, <2>1 DEF Admit, QuotaInv, CopiesOK
    <3>2. overFor < TTL
      BY <2>0, <3>1
    <3>3. Len(pending') = Len(pending) + 1 /\ Len(pending) \in Nat
      BY <2>0, <2>1 DEF Admit
    <3>4. pending' # pending
      BY <3>3
    <3> QED
      BY <3>2, <3>4
  <2>2. ASSUME NEW i \in Instances, Refuse(i) PROVE Follows
    <3>1. underFor <= cached[i].age /\ cached[i].age < TTL /\ cached[i].age \in Nat
      BY <2>0, <2>2 DEF Refuse, QuotaInv, CopiesOK
    <3>2. underFor < TTL /\ pending' = pending
      BY <2>0, <2>2, <3>1 DEF Refuse
    <3>3. Len(pending) \in Nat
      BY <2>0
    <3> QED
      BY <3>2, <3>3
  <2>3. CASE Book
    <3>1. Len(pending') = Len(pending) - 1 /\ Len(pending) \in Nat /\ calls' = calls
      BY <2>0, <2>3 DEF Book
    <3> QED
      BY <2>0, <3>1
  <2>4. CASE UNCHANGED <<pending, calls>>
    BY <2>0, <2>4
  <2>5. ASSUME NEW i \in Instances, Fetch(i) \/ Drop(i) PROVE Follows
    BY <2>4, <2>5 DEF Fetch, Drop
  <2>6. ASSUME NEW a \in Admins, Edit(a) PROVE Follows
    BY <2>4, <2>6 DEF Edit, AskSet, AskTopUp, ReadBase, ReadKey, Write, gateway
  <2>7. CASE Tick
    BY <2>4, <2>7 DEF Tick
  <2>8. CASE Watch
    BY <2>4, <2>8, WatchFrame DEF QuotaInv
  <2> QED
    BY <2>1, <2>2, <2>3, <2>5, <2>6, <2>7, <2>8 DEF Next, Serve
<1> QED
  BY <1>1, QuotaAlways, PTL DEF Spec, VerdictsFollowTheKey

=============================================================================
