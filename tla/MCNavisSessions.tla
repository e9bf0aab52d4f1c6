-------------------------- MODULE MCNavisSessions --------------------------
(* Two commands and two events of one process; handlers that take rows in  *)
(* either order, add a step, move the first to a state of its class, to    *)
(* its end, out of it or back to its beginning, or raise half-way. A step  *)
(* at its end may not be taken up again.                                   *)
EXTENDS NavisSessions

MCStates == {Begin, "TAKE", Finish}
MCBarred == {<<Finish, "TAKE">>}

Call(op)       == [op |-> op, step |-> None, to |-> None]
Transit(n, to) == [op |-> "transit", step |-> n, to |-> to]
Handler(body)  == <<Call("trigger")>> \o body
Grow   == Handler(<<Call("add_step")>>)
Retire == Handler(<<Call("add_step"), Transit(0, Begin), Call("cancel")>>)
Note   == Handler(<<Call("memorize"), Transit(0, Finish)>>)
Take   == Handler(<<Transit(0, "TAKE"), Call("memorize")>>)
Close  == Handler(<<Transit(0, Finish)>>)
Follow == Handler(<<Transit(1, Finish), Call("pause")>>)
Fumble == Handler(<<Call("memorize"), Call("raise")>>)

MCOrders == {<<Call("start"), Call("add_step")>>, Retire, Note}
MCEvents == {<<Grow>>, <<Close>>, <<Take, Follow>>, <<Grow, Fumble>>}
=============================================================================
