---------------------------- MODULE MC_Installer ----------------------------
EXTENDS Installer
====
