------------------------- MODULE MCProcessGroupNCCL -------------------------
(* Scripts for ProcessGroupNCCL, for two and three ranks. *)
EXTENDS ProcessGroupNCCL

init(name, store) == [do |-> "init", name |-> name, store |-> store]
new_group(ranks) == [do |-> "new_group", ranks |-> ranks]
call(group, devices, op) == [do |-> "call", group |-> group, devices |-> devices, op |-> op]
p2p(peer, device, op) ==
  [do |-> "p2p", group |-> 0, peer |-> peer, devices |-> {device}, op |-> op]
barrier(group) == [do |-> "barrier", group |-> group, op |-> "barrier"]
wait(work) == [do |-> "wait", work |-> work]
stop == [do |-> "stop"]
destroy(group) == [do |-> "destroy", group |-> group]

\* The timeouts of operations pass on the ranks impatient, errors happen on errs.
Script(mode, steps, impatient, errs) ==
  [mode |-> mode, steps |-> steps, impatient |-> impatient, errs |-> errs,
   storeLate |-> {}]

LateScript(steps) ==
  [Script("plain", steps, {}, {}) EXCEPT !.storeLate = {1, 2}]

All(Steps(_)) == [r \in Rank |-> Steps(r)]
TwoRanks(Steps(_)) == [r \in Rank |-> IF r < 2 THEN Steps(r) ELSE <<>>]

\* Ranks 1 and 2 exchange a message, and all call a collective.
PairAndAll(r) ==
  <<init(-1, 1)>>
  \o (CASE r = 0 -> <<>> [] r = 1 -> <<p2p(2, 1, "message")>> [] r = 2 -> <<p2p(1, 2, "message")>>)
  \o <<call(0, {r}, "all"), destroy(0)>>

\* Ranks 1 and 2 have a group of their own, which they destroy first.
OwnGroup(r) ==
  <<init(-1, 1), new_group({1, 2})>>
  \o (IF r = 0 THEN <<>> ELSE <<call(1, {r}, "sub")>>)
  \o <<call(0, {r}, "all")>>
  \o (IF r = 0 THEN <<>> ELSE <<destroy(1)>>) \o <<destroy(0)>>

\* Communicators over one and two devices; the groups are made again on a new
\* store.
DevicesAndAgain(r) ==
  <<init(3, 1), barrier(3), call(3, {r, r + N}, "two"), barrier(3), wait(3), destroy(3),
    init(-1, 2), call(0, {r}, "again"), destroy(0)>>

\* Two calls; a rank of hung hangs between them.
TwoCalls(r, hung) ==
  <<init(-1, 1), call(0, {r}, "first"), wait(1)>>
  \o (IF r \in hung THEN <<stop>> ELSE <<>>)
  \o <<call(0, {r}, "second"), wait(2), destroy(0)>>

CallAndBarrier(r, hung) ==
  <<init(-1, 1), call(0, {r}, "first")>>
  \o (IF r \in hung THEN <<stop>> ELSE <<>>)
  \o <<barrier(0), wait(2), destroy(0)>>

\* A group's name is taken; a rank has no default group.
Refused(r) ==
  IF r = 0 THEN <<new_group({0}), destroy(0)>>
  ELSE <<init(1, 1), new_group({1, 2}), new_group({1, 2}), destroy(1)>>

\* The default group exists already.
RefusedInit(r) == <<init(-1, 1), init(1, 1), destroy(0)>>

\* Of two ranks, one asks for too many ranks and one for a rank there is not.
RefusedRanks(r) ==
  <<init(-1, 1), new_group(IF r = 0 THEN {0, 1, 2} ELSE {1, 2}), destroy(0)>>

RefusedTwice(r) == <<init(0, 1), new_group({0, 1, 2}), destroy(0)>>

\* Rank 0 hangs before the group is there, or before its first call.
LateForInit(r) == IF r = 0 THEN <<stop>> ELSE <<init(-1, 1), destroy(0)>>

LateForCall(r) ==
  <<init(-1, 1)>> \o (IF r = 0 THEN <<stop>> ELSE <<call(0, {r}, "all"), destroy(0)>>)

OneNPU(r) ==
  <<init(-1, 1), call(0, {r}, "one"), barrier(0), wait(2)>>
  \o (IF r = 0 THEN <<p2p(1, 0, "message")>> ELSE <<>>) \o <<destroy(0)>>

SomeScripts == {
  Script("plain", All(PairAndAll), {}, {}),
  Script("plain", All(OwnGroup), {}, {}),
  Script("plain", All(DevicesAndAgain), {}, {}),
  Script("plain", All(RefusedTwice), {}, {}),
  Script("plain", TwoRanks(RefusedInit), {}, {}),
  Script("plain", TwoRanks(RefusedRanks), {}, {}),
  LateScript(All(Refused)), LateScript(All(LateForInit)),
  LateScript(All(LateForCall)),
  Script("blocking", [r \in Rank |-> TwoCalls(r, {2})], {0}, {}),
  Script("blocking", TwoRanks(LAMBDA r : TwoCalls(r, {})), Rank, {1}),
  Script("async", [r \in Rank |-> CallAndBarrier(r, {2})], {0, 1}, {}),
  Script("async", TwoRanks(LAMBDA r : CallAndBarrier(r, {})), Rank, {1}),
  Script("hccl", All(OneNPU), {}, {}),
  Script("hcclBlocking", [r \in Rank |-> TwoCalls(r, {2})], {0, 1}, {})}
=============================================================================
