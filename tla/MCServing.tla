------------------------------ MODULE MCServing ------------------------------
(***************************************************************************)
(* An instance of Serving: files, environments, advertisements and         *)
(* payloads, each a variation of what works.                               *)
(***************************************************************************)
EXTENDS Serving, TLC

MCText ==
  {"", " ", "Desk 1", "DESK 1", "Desk 1 ", "Desk", "Lamp", "P1", "p1", "P2",
   "#", "left", "right", "bridge", "a/b", "+", "cmd", "tele", "linak", "mqtt"}

MCTrim == " " :> "" @@ "Desk 1 " :> "Desk 1" @@ [s \in MCText |-> s]
MCFold == "Desk 1" :> "DESK 1" @@ "p1" :> "P1" @@ [s \in MCText |-> s]
MCPrefix == {<<s, s>> : s \in MCText} \cup {<<"Desk", "DESK 1">>}

Entry(id, name, prefix, pid) ==
  [id |-> id, name |-> name, name_prefix |-> prefix, peripheral_id |-> pid]
Right == Entry("right", "", "", "p1")

Good ==
  [broker |-> "mqtt", desks |-> <<Entry("left", "DESK 1", "", ""), Right>>]

Desks(first) == [desks |-> <<first, Right>>]

Variations ==
  {[broker |-> " "], [qos |-> 3],
   [command |-> <<"tele">>], [command |-> <<"tele", "linak">>],
   [command |-> <<"cmd", "+">>], [command |-> <<"cmd", "">>],
   [metric |-> <<" ">>],
   [desks |-> <<>>], Desks(Right), Desks(Entry("bridge", "Desk 1", "", "")),
   Desks(Entry("left", "", "Desk", "")), Desks(Entry("a/b", "Desk 1", "", "")),
   Desks(Entry("left", "", " ", "")), Desks(Entry("left", "Desk 1", "", "P2")),
   [keepAlive |-> 0], [keepAlive |-> 2],
   [minBackoff |-> 0], [maxBackoff |-> 1], [connectTimeout |-> 0]}

MCFiles ==
  {[state |-> s, settings |-> Good] : s \in FileStates}
    \cup {[state |-> "fine", settings |-> v @@ Good] : v \in Variations}

NoSettings == [k \in {} |-> 0]
MCEnvs ==
  {NoSettings, [command |-> <<"#">>], [metric |-> <<"cmd", "linak">>],
   [qos |-> 7]}

Advert(pid, name, local, rssi) ==
  [pid |-> pid, name |-> name, local |-> local, rssi |-> rssi]

MCAdverts ==
  {Advert("P1", Absent, Absent, 3), Advert("P1", Absent, "Desk 1 ", 2),
   Advert("p1", "Desk 1", Absent, 2),
   Advert("P2", Absent, Absent, 2), Advert("P2", "", "Lamp", 1),
   Advert("P2", " ", "Lamp", 2)}

MCMinInt == -70000

MCPayloads ==
  {Plain(v) : v \in {Finite(t) : t \in {-6, -4, 73546, 655354, 655355}}
                      \cup {NaN, Inf, Huge, NotANumber}}
    \cup {Object([height |-> Finite(5), base_height |-> NaN]),
          Object([value |-> NotANumber, height |-> Finite(10)]),
          Object([speed |-> Finite(10)])}
=============================================================================
