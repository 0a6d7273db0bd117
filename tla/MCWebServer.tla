---------------------------- MODULE MCWebServer ----------------------------
EXTENDS WebServer

\* The chunks a CGI program writes: header and body at once or after each other, a
\* first piece of the header alone, and the two headers with a treatment of their own.
AllPlans == {<<"head">>, <<"head", "part">>, <<"part", "head">>, <<"location">>, <<"status">>}
=============================================================================
