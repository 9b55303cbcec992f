---------------------------- MODULE MCConnection ----------------------------
(* A small instance of Connection for TLC. *)
EXTENDS Connection

Request(uri, username, password, domain, seal) ==
    [uri |-> uri, username |-> username, password |-> password, domain |-> domain, seal |-> seal]

Anonymous(uri) == Request(uri, Absent, Absent, Absent, FALSE)

\* Each part there, empty or absent; separators where they are none.
MCWritten ==
    [domain : {Absent, <<>>, <<"d">>}, user : {Absent, <<>>, <<"u">>},
     server : {<<>>, <<"h">>}, share : {<<>>, <<"s">>},
     path : {<<>>, <<"/", "n", "@", "n", ";", "n">>}]

Full == <<"smb", "://", "d", ";", "u", "@", "h", "/", "s", "/", "n", "@", "n", ";", "n">>

\* Those, and the URI's user and domain beside explicit ones of each kind; each way to
\* be refused; a text with a NUL in it; a directory, a scheme in capitals, an unknown one.
MCRequests ==
    {Request(Full, <<"v">>, <<"p">>, <<"e">>, TRUE), Request(Full, <<"v">>, Absent, Absent, FALSE),
     Request(Full, Absent, <<"p">>, <<"e">>, FALSE), Request(Full, <<>>, Absent, Absent, TRUE),
     Request(Full, <<"v", "\\0">>, <<"p">>, Absent, FALSE)}
    \cup {Anonymous(<<"smb", "://">> \o Rendered(w)) : w \in MCWritten}
    \cup {Anonymous(uri) : uri \in {
        <<"SMB", "://", "h", "/", "s">>, <<"smb", "://", "h">>, <<"smb", "://", "u", "@", "/", "s">>,
        <<"h", "/", "s">>, <<"://", "h">>, <<"sm b", "://", "h">>, <<"sftp", "://", "h">>,
        <<"file", "://">>, <<"file", "://", "/", "d">>}}
=============================================================================
