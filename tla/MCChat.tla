---- MODULE MCChat ----
\* Instances of Chat for TLC.
EXTENDS Chat

\* The second answer begins with "{".
Braces == {Post("agent", 2)} \intersect Posts
====
