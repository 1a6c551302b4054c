---------------------------- MODULE MCInstallRun ----------------------------
(* Small batches for InstallRun: arguments, images and package names after  *)
(* entries of internal/docker/system-deps.json.                             *)
EXTENDS InstallRun, TLC

None == [persistent |-> {}, buildOnly |-> {}, headers |-> {}, links |-> {}]
Arg(b, debian, alpine) ==
  [bundled |-> b, needs |-> [debian |-> debian, alpine |-> alpine]]
Entry(p, b, h, l) ==
  [persistent |-> p, buildOnly |-> b, headers |-> h, links |-> l]

\* A bundled extension whose runtime package the catalog names by a pattern.
Intl == Arg(TRUE,
  Entry({"^libicu[0-9]+$"}, {"libicu-dev"}, {"libicu-dev"}, {"libicu72"}),
  Entry({"icu-libs"}, {"icu-dev"}, {"icu-dev"}, {"icu-libs"}))

\* A third-party extension without system packages, and one with some.
Redis == Arg(FALSE, None, None)
Amqp == Arg(FALSE,
  Entry({"^librabbitmq[0-9]*$"}, {"librabbitmq-dev"}, {"librabbitmq-dev"},
        {"librabbitmq4"}),
  Entry({"rabbitmq-c"}, {"rabbitmq-c-dev"}, {"rabbitmq-c-dev"},
        {"rabbitmq-c"}))

\* Some of its packages exist, depending on the release.
Tensor == Arg(FALSE,
  Entry({"liblapacke", "^(libopenblas0|libgfortran5)$"},
        {"liblapacke-dev", "libgfortran-6-dev"}, {"liblapacke-dev"},
        {"liblapacke"}),
  Entry({"openblas"}, {"openblas-dev", "libexecinfo-dev"},
        {"openblas-dev"}, {"openblas"}))

\* The runtime package is among the build-only ones, behind a pattern.
Imap == Arg(TRUE,
  Entry({"^(sgml-base|libc-client2007e)$"},
        {"libc-client-dev", "libc-client2007e"}, {"libc-client-dev"},
        {"libc-client2007e"}),
  Entry({"c-client"}, {"imap-dev"}, {"imap-dev"}, {"c-client"}))

\* A Packagist package that declares lib-zip: ResolveSystemDeps knows the -dev
\* package and no runtime package.
LibZip == Arg(FALSE,
  Entry({}, {"libzip-dev"}, {"libzip-dev"}, {"libzip"}),
  Entry({}, {"libzip-dev"}, {"libzip-dev"}, {"libzip"}))

BatchMatches ==
  ("^libicu[0-9]+$" :> {"libicu72"}) @@
  ("^librabbitmq[0-9]*$" :> {"librabbitmq4"}) @@
  ("^(libopenblas0|libgfortran5)$" :> {"libopenblas0", "libgfortran5"})
MCMatches ==
  BatchMatches @@ ("^(sgml-base|libc-client2007e)$" :> {"libc-client2007e"})

PackagesOf(f) ==
  UNION {a.needs[f].persistent \cup a.needs[f].buildOnly \cup a.needs[f].links :
           a \in {Intl, Amqp, Tensor, Imap, LibZip}}

\* The library each -dev package pulls in.
MCDepends ==
  [p \in (PackagesOf("debian") \cup PackagesOf("alpine")
            \cup {"libc", "autoconf", "gcc"} \cup UNION Range(MCMatches))
         \ DOMAIN MCMatches |->
     CASE p = "libicu-dev" -> {"libicu72"}
       [] p = "icu-dev" -> {"icu-libs"}
       [] p = "liblapacke-dev" -> {"liblapacke"}
       [] p = "openblas-dev" -> {"openblas"}
       [] p = "librabbitmq-dev" -> {"librabbitmq4"}
       [] p = "rabbitmq-c-dev" -> {"rabbitmq-c"}
       [] p = "libc-client-dev" -> {"libc-client2007e"}
       [] p = "imap-dev" -> {"c-client"}
       [] p = "libzip-dev" -> {"libzip"}
       [] OTHER -> {}]

\* What the releases of the model no longer have.
Gone == {"libgfortran-6-dev", "libexecinfo-dev"}

Debian == [family |-> "debian", installed |-> {"libc", "libicu-dev", "libicu72"},
           available |-> DOMAIN MCDepends \ Gone,
           autoconf |-> TRUE, phpizeDeps |-> {"autoconf", "gcc"}]
Alpine == [family |-> "alpine", installed |-> {"libc"},
           available |-> DOMAIN MCDepends \ Gone,
           autoconf |-> FALSE, phpizeDeps |-> {"autoconf", "gcc"}]

\* Every kind of argument in one batch, in an order that mixes the two loops.
MCRequests == {<<Amqp, Intl>>, <<Tensor, Redis, Intl, Redis>>}
MCImages == {Debian, Alpine}
MCFlags == {f \in [jobs : {1, 2}, installDeps : BOOLEAN, cleanupDeps : BOOLEAN,
                    prebuilts : BOOLEAN, enable : BOOLEAN] :
              /\ f.cleanupDeps => f.installDeps
              /\ ~f.enable => f.cleanupDeps /\ f.prebuilts /\ f.jobs = 2}

\* The batches and flags of the runs that look for one case.
Wanted == [jobs |-> 2, installDeps |-> TRUE, cleanupDeps |-> TRUE,
           prebuilts |-> FALSE, enable |-> TRUE]
MCWanted == {Wanted}
MCPreferPrebuilt == {[Wanted EXCEPT !.prebuilts = TRUE]}
MCDebian == {Debian}
MCAlpine == {Alpine}
MCImap == {<<Redis, Imap>>}
MCLibZip == {<<Redis, LibZip>>}
=============================================================================
