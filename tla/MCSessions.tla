------------------------------- MODULE MCSessions -------------------------------
(* Instances of Sessions for TLC: what is asked for during the behaviour.        *)
EXTENDS Sessions

CONSTANTS c1, c2, c3

MCCall == {c1, c2, c3}
MCTab == 1..2

Do(kind, tab) == [kind |-> kind, tab |-> tab, password |-> "old", next |-> "new"]
Wrong(tab) == [Do("login", tab) EXCEPT !.password = "new"]
Scene(x, y, z) == c1 :> x @@ c2 :> y @@ c3 :> z

MCScenes == {
  \* requests of one tab, of two tabs, of both kinds
  Scene(Do("fetch", 1), Do("fetch", 1), Do("fetch", 2)),
  Scene(Do("fetch", 1), Do("fetch", 1), Do("blob", 1)),
  \* the operator leaves while a refresh is on its way
  Scene(Do("fetch", 1), Do("logout", 1), Do("login", 1)),
  Scene(Do("fetch", 1), Do("revoke", 2), Do("blob", 2)),
  \* the account is closed, by one way or the other, and opened again
  Scene(Do("fetch", 1), Do("delete", 2), Do("login", 2)),
  Scene(Do("blob", 1), Do("update", 2), Do("login", 2)),
  Scene(Do("fetch", 1), Do("delete", 2), Do("update", 2)),
  \* attempts to sign in, and what resets them
  Scene(Wrong(1), Wrong(2), Do("login", 2)),
  Scene(Wrong(1), Wrong(2), Do("unlock", 2)),
  Scene(Wrong(1), Do("password", 1), Wrong(2)),
  Scene(Wrong(1), Wrong(2), Wrong(2))}
================================================================================
