\* Parsing stat --terse and md5sum output, with and without SELinux and
\* for file names with a space.
SPECIFICATION Spec
\* The check ends once the output is parsed.
CHECK_DEADLOCK FALSE
PROPERTY ShellOutputDecodes
