------------------------------ MODULE MCReader -------------------------------
(***************************************************************************)
(* The responses of small instances of HTReader.                           *)
(***************************************************************************)
EXTENDS HTReader

Whole(fields, body) ==
    [fields |-> fields, coding |-> "length", body |-> <<body>>, trailer |-> <<>>]
Chunked(fields, body, trailer) ==
    [fields |-> fields, coding |-> "chunked", body |-> body, trailer |-> trailer]
Empty(fields) ==
    [fields |-> fields, coding |-> "none", body |-> <<>>, trailer |-> <<>>]

\* A response without a body, one with a length whose body looks like the end of a
\* header, two chunks the first one of which looks like the last one, a length of 0,
\* and a last response after it.
Pipeline ==
    << Empty(<< <<"A", <<"a", "SP", "b">> >> >>),
       Whole(<< <<"A", <<"a">> >>, <<"L", <<"3">> >> >>, <<"LF", "CR", "LF">>),
       Chunked(<< <<"T", <<"a">> >>, <<"A", <<"b">> >> >>,
               << <<"0", "CR", "LF">>, <<"S">> >>, <<>>),
       Whole(<< <<"L", <<"0">> >> >>, <<>>),
       Whole(<< <<"L", <<"1">> >> >>, <<"S">>) >>
==============================================================================
