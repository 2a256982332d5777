----------------------------- MODULE MCDesktop ------------------------------
(* A desktop with a tray, two without, and a launch from a terminal; the    *)
(* first launch ever, or one with a config on file, whole or cut short.    *)
EXTENDS Desktop

Host(tray, background, terminal) ==
  [tray |-> tray, background |-> background, terminal |-> terminal]
MCDesktops == {Host(TRUE, TRUE, FALSE), Host(FALSE, TRUE, FALSE),
               Host(FALSE, FALSE, FALSE), Host(FALSE, FALSE, TRUE)}
Config(kind, startup, conn) ==
  [kind |-> kind, startup |-> startup, conn |-> conn]
MCForms == {Config("full", TRUE, "node"), Config("polite", FALSE, "hub"),
            Config("full", FALSE, None)}
MCFiles == {Absent, Torn, Config("full", TRUE, "node")}
=============================================================================
