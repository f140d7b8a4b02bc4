---- MODULE MCFastload ----
EXTENDS Fastload
====
