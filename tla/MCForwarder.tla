---------------------------- MODULE MCForwarder -----------------------------
(* An instance of Forwarder for TLC. *)
EXTENDS Forwarder

\* The one name that is asked.
Www == << "com", "site", "www" >>

MCQuery == {Www}

MCLabel == {"", "com", "site", "www", "org", "other"}

\* A list with a domain above it, and one that leaves it to the local resolver;
\* both have names that DomainMap does not take.
MCLists == {{<< "com", "site" >>, << "com" >>},
            {<< "org", "other", "www" >>, << "", "com", "site" >>}}
=============================================================================
