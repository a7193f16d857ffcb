----------------------- MODULE MCConnectionLifecycle -----------------------
EXTENDS ConnectionLifecycle
====
