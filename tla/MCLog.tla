------------------------------- MODULE MCLog --------------------------------
(* A small instance of Log for TLC; MCLog.cfg gives the values.            *)
EXTENDS Log

M == <<"%", "m">>
D == <<"%", "d">>
Bad == <<"%", "q">>

Stdout == [type |-> "StdoutLogAppender", file |-> Null, formatter |-> Null]
ToFile(p) == [type |-> "FileLogAppender", file |-> "app.log", formatter |-> p]
NoFile == [type |-> "FileLogAppender", file |-> Null, formatter |-> Null]
Node(name, p, apps) ==
    [name |-> name, levle |-> FALSE, level |-> FATAL, formatter |-> p, appenders |-> apps]

(* Two definitions of logger 1, one of them next to a definition of the    *)
(* root logger, that one alone, and a document that does not convert.      *)
Documents ==
    {<<Node(1, Bad, <<ToFile(Bad), NoFile, Stdout>>), Node(1, D, << >>)>>,
     <<Node(0, D, << >>), Node(1, D, <<ToFile(M)>>)>>,
     <<Node(0, D, << >>)>>,
     <<Node(Null, Null, << >>)>>}

Pats == {M, D}
NewPats == {D}
=============================================================================
