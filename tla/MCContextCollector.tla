-------------------------- MODULE MCContextCollector --------------------------
(***************************************************************************)
(* Two tasks, two conversations, a store for one of them.  Five chunks:    *)
(* 1 and 2 have the same text in two files, 5 has it too and comes without *)
(* a file, 3 repeats 1 in its file with a lower score, 4 may be described  *)
(* by the graph too.  Memory has some of the request's turns, none because *)
(* it failed, or only turns the request lacks; 13 and 16 both say "ok".    *)
(***************************************************************************)
EXTENDS ContextCollector

MCText == <<"cost", "cost", "cost", "date", "cost">>
MCFile == <<"a", "b", "a", "a", "">>
MCScore == <<2, 3, 1, 2, 1>>
MCAnswers == {<<1, 2, 3>>, <<4, 5, 1>>}
MCDescriptions == {{}, {"date"}}

Said(id, text) == [id |-> id, text |-> text]
Window(inherited, memory, event) == [inherited |-> inherited, memory |-> memory, event |-> event]

Lags == <<Said(13, "ok"), Said(14, "why"), Said(15, "so")>>
Whole == <<Said(15, "so"), Said(16, "ok")>>

MCWindows ==
    {Window(<<>>, Lags, Whole), Window(<<>>, <<Said(11, "hello"), Said(15, "so")>>, Whole),
     Window(<<Said(0, "before")>>, <<Said(11, "hello")>>, Whole)}
=============================================================================
