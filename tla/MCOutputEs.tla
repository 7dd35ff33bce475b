----------------------------- MODULE MCOutputEs ------------------------------
(* An instance of OutputEs for TLC. *)
EXTENDS OutputEs

FirstLine(status) == <<"H", "sp">> \o status \o <<"sp", "O", "cr", "lf">>

Answer(status, headers, text, body, chunked, chunks) ==
    LET front == FirstLine(status) \o headers \o <<"cr", "lf">>
    IN  [text |-> front \o text, status |-> status, body |-> body, chunked |-> chunked,
         head |-> Len(front),
         chunks |-> [k \in DOMAIN chunks |->
            [size |-> Len(front) + chunks[k][1], data |-> Len(front) + chunks[k][2],
             length |-> chunks[k][3], at |-> chunks[k][4]]]]

\* A body of known length, an error without one, and two chunked bodies: the buffer
\* grows behind the size of the first chunk of one, and within that of the other.
MCAnswers ==
    {Answer(<<"2", "0">>, <<"C", "L", "col", "sp", "2", "cr", "lf">>,
            <<"b", "d">>, <<"b", "d">>, FALSE, <<>>),
     Answer(<<"5">>, <<>>, <<>>, <<>>, FALSE, <<>>),
     Answer(<<"2">>, <<"T", "E", "col", "c", "k", "cr", "lf">>,
            <<"2", "cr", "lf", "b", "d", "cr", "lf", "1", "lf", "e", "lf",
              "0", "cr", "lf", "cr", "lf">>, <<"b", "d", "e">>, TRUE,
            <<<<0, 3, 2, 0>>, <<7, 9, 1, 2>>, <<11, 14, 0, 3>>>>),
     Answer(<<"2">>, <<"T", "E", "col", "c", "k", "cr", "lf">>,
            <<"0", "0", "1", "lf", "b", "lf", "0", "lf", "lf">>, <<"b">>, TRUE,
            <<<<0, 4, 1, 0>>, <<6, 8, 0, 1>>>>)}

MCOptions == {[bulk |-> TRUE, strict |-> FALSE], [bulk |-> FALSE, strict |-> TRUE]}

\* A line and the start of another, the end of a line, two short lines.
MCMessages ==
    {[file |-> <<"f">>, text |-> <<"a", "sp", "b", "nl", "x">>],
     [file |-> <<"g", "h">>, text |-> <<"t", "sp", "a", "nl">>],
     [file |-> <<"f">>, text |-> <<"nl", "a", "nl">>]}
MCTemplate == <<"$", "0", "q", "$", "2", "q", "$", "1">>
MCSeparators == {"sp"}
MCTranslated == {"t"}
=============================================================================
